---- MODULE Spec2Model ----
(***************************************************************************)
(* A model of ffp, the "far-from-perfect" chess engine (src/ffp.c).        *)
(*                                                                         *)
(* A bitboard (U64) is modelled as the set of its set bits, a subset of    *)
(* 0..63: bit s is square s, a8 = 0 ... h1 = 63.  A shift keeps only the   *)
(* bits that stay inside the 64-bit word.  A Position is a record with the *)
(* fields of the C struct; the cached occupancies are fields of their own, *)
(* written only where the code writes them.                                *)
(***************************************************************************)
EXTENDS Integers, Sequences, FiniteSets, TLC

VARIABLES
    pos,        \* the Position the caller owns
    undoStack,  \* the caller's (Move, Undo) records of the moves made and not yet unmade,
                \* each with the Position as it was before the move
    snap,       \* the Position recorded with the move that was unmade last
    lastOp,     \* the public operation that ran last
    fenIn,      \* the FEN text last given to ffp_position_from_fen
    fenOk,      \* its return value
    fenOut,     \* the text ffp_position_to_fen wrote last
    phase,      \* where the running ffp_search stands: "idle" before the call, "root" at
                \* the head of its root-move loop, "call" at the entry of an alphabeta
                \* call, "loop" at the head of an alphabeta move loop, "ret" when a call
                \* has just returned, "done" after ffp_search returned
    ctx,        \* its SearchContext (nodes, aborted, limits)
    root,       \* the locals of ffp_search: rootMoves, depth, i, best_score,
                \* best_move_depth, found, best_so_far and the Undo of the move made
    frames,     \* the stack of active alphabeta calls, the innermost last (in
                \* SpecPerft: of active perft calls)
    ret,        \* the value the last alphabeta call returned
    result,     \* the SearchResult being built, and returned at "done"
    stopFlag,   \* the caller's stop flag, which limits.stop may point to
    elapsed_ms, \* the processor time used since ffp_search read the clock
    limits,     \* the SearchLimits the caller passes to ffp_search
    hist,       \* a record of the run: the Position at entry, the choice of every
                \* completed iteration, and the iteration in which the abort fired
    uci,        \* the position command uci_loop handled last, and how many of its
                \* move texts ffp_move_from_string accepted
    parsed,     \* the text last given to ffp_move_from_string, its return value and
                \* the move it wrote
    rendered,   \* the move last given to ffp_move_to_string and the text it wrote
    io,         \* uci_loop's streams: the number of go commands read from the input
                \* and the lines written to the output in answer to them
    input       \* the lines uci_loop has read from its input, in SpecLoop

apiVars == <<undoStack, snap, lastOp, fenIn, fenOk, fenOut>>

searchVars == <<phase, ctx, root, frames, ret, result, stopFlag, elapsed_ms, limits, hist>>

coordVars == <<uci, parsed, rendered, io, input>>

vars == <<pos, undoStack, snap, lastOp, fenIn, fenOk, fenOut,
          phase, ctx, root, frames, ret, result, stopFlag, elapsed_ms, limits, hist,
          uci, parsed, rendered, io, input>>

(***************************************************************************)
(* ffp.h: enums                                                            *)
(***************************************************************************)
WP == 0
WR == 1
WN == 2
WB == 3
WQ == 4
WK == 5
BP == 6
BR == 7
BN == 8
BB == 9
BQ == 10
BK == 11
PIECE_N == 12

BLACK == 0
WHITE == 1

MF_QUIET == 0
MF_CAPTURE == 1
MF_PROMO == 2
MF_ENPASSANT == 4
MF_CASTLE == 8
MF_DOUBLE == 16

Squares == 0..63

\* flags & f, for a single-bit mask f
HasFlag(flags, f) == (flags \div f) % 2 = 1

\* (Side)!side
OtherSide(side) == IF side = WHITE THEN BLACK ELSE WHITE

type_of_piece(p) == p % 6

(***************************************************************************)
(* Bit helpers.  LSB_INDEX is __builtin_ctzll: the lowest set bit.  It is  *)
(* undefined on 0; the model leaves it undefined there too (TLC stops with *)
(* an error if an empty set ever reaches it).                              *)
(***************************************************************************)
LSB_INDEX(b) == CHOOSE s \in b : \A t \in b : s <= t

popcount64(x) == Cardinality(x)

get_bit(b, s) == s \in b

\* the squares of b in the order of the idiom  for (x=b; x; x&=x-1) LSB_INDEX(x)
SquareSeq == [i \in 1..64 |-> i - 1]

BitsOf(b) == SelectSeq(SquareSeq, LAMBDA s : s \in b)

RECURSIVE Concat(_)
Concat(ss) == IF ss = <<>> THEN <<>> ELSE Head(ss) \o Concat(Tail(ss))

(***************************************************************************)
(* Geometry                                                                *)
(***************************************************************************)
FILE_A == {s \in Squares : s % 8 = 0}

FILE_H == {s \in Squares : s % 8 = 7}

RANK_MASK(n) == IF n >= 1 /\ n <= 8 THEN {s \in Squares : s \div 8 = 8 - n} ELSE {}

\* bb << k and bb >> k on a 64-bit word
ShiftLeft(bb, k) == {s + k : s \in {t \in bb : t + k <= 63}}

ShiftRight(bb, k) == {s - k : s \in {t \in bb : t - k >= 0}}

shift_east(bb) == ShiftLeft(bb \ FILE_H, 1)

shift_west(bb) == ShiftRight(bb \ FILE_A, 1)

shift_south(bb) == ShiftLeft(bb, 8)

shift_north(bb) == ShiftRight(bb, 8)

shift_ne(bb) == ShiftRight(bb \ FILE_H, 7)

shift_nw(bb) == ShiftRight(bb \ FILE_A, 9)

shift_se(bb) == ShiftLeft(bb \ FILE_H, 9)

shift_sw(bb) == ShiftLeft(bb \ FILE_A, 7)

ShiftDir(d, bb) ==
    CASE d = "n" -> shift_north(bb)
      [] d = "s" -> shift_south(bb)
      [] d = "e" -> shift_east(bb)
      [] d = "w" -> shift_west(bb)
      [] d = "ne" -> shift_ne(bb)
      [] d = "nw" -> shift_nw(bb)
      [] d = "se" -> shift_se(bb)
      [] d = "sw" -> shift_sw(bb)

\* a=0,x=s; while((x=shift(x))){ a|=x; if(x&o) break; } return a;
RECURSIVE RayWalk(_, _, _)
RayWalk(d, x, o) ==
    LET y == ShiftDir(d, x)
    IN  IF y = {} THEN {}
        ELSE IF y \cap o # {} THEN y
        ELSE y \cup RayWalk(d, y, o)

ray_north(s, o) == RayWalk("n", s, o)

ray_south(s, o) == RayWalk("s", s, o)

ray_east(s, o) == RayWalk("e", s, o)

ray_west(s, o) == RayWalk("w", s, o)

ray_ne(s, o) == RayWalk("ne", s, o)

ray_nw(s, o) == RayWalk("nw", s, o)

ray_se(s, o) == RayWalk("se", s, o)

ray_sw(s, o) == RayWalk("sw", s, o)

(***************************************************************************)
(* Attacks                                                                 *)
(***************************************************************************)
king_attacks_from(src) ==
    shift_north(src) \cup shift_south(src) \cup shift_east(src) \cup shift_west(src)
    \cup shift_ne(src) \cup shift_nw(src) \cup shift_se(src) \cup shift_sw(src)

knight_attacks_from(src) ==
    LET nn == shift_north(shift_north(src))
        ss == shift_south(shift_south(src))
        ee == shift_east(shift_east(src))
        ww == shift_west(shift_west(src))
    IN  shift_east(nn) \cup shift_west(nn) \cup shift_east(ss) \cup shift_west(ss)
        \cup shift_north(ee) \cup shift_south(ee) \cup shift_north(ww) \cup shift_south(ww)

white_pawn_attacks(p) == shift_nw(p) \cup shift_ne(p)

black_pawn_attacks(p) == shift_sw(p) \cup shift_se(p)

rook_attacks_from(s, o) == ray_north(s, o) \cup ray_south(s, o) \cup ray_east(s, o) \cup ray_west(s, o)

bishop_attacks_from(s, o) == ray_ne(s, o) \cup ray_nw(s, o) \cup ray_se(s, o) \cup ray_sw(s, o)

queen_attacks_from(s, o) == rook_attacks_from(s, o) \cup bishop_attacks_from(s, o)

ffp_is_square_attacked(p, sq, by) ==
    LET occ == p.occ_all
    IN  IF by = WHITE
        THEN \/ sq \in white_pawn_attacks(p.bb[WP])
             \/ \E s \in p.bb[WN] : sq \in knight_attacks_from({s})
             \/ \E s \in p.bb[WB] \cup p.bb[WQ] : sq \in bishop_attacks_from({s}, occ)
             \/ \E s \in p.bb[WR] \cup p.bb[WQ] : sq \in rook_attacks_from({s}, occ)
             \/ sq \in king_attacks_from(p.bb[WK])
        ELSE \/ sq \in black_pawn_attacks(p.bb[BP])
             \/ \E s \in p.bb[BN] : sq \in knight_attacks_from({s})
             \/ \E s \in p.bb[BB] \cup p.bb[BQ] : sq \in bishop_attacks_from({s}, occ)
             \/ \E s \in p.bb[BR] \cup p.bb[BQ] : sq \in rook_attacks_from({s}, occ)
             \/ sq \in king_attacks_from(p.bb[BK])

(***************************************************************************)
(* Position                                                                *)
(***************************************************************************)
update_occupancy(p) ==
    LET w == p.bb[WP] \cup p.bb[WR] \cup p.bb[WN] \cup p.bb[WB] \cup p.bb[WQ] \cup p.bb[WK]
        b == p.bb[BP] \cup p.bb[BR] \cup p.bb[BN] \cup p.bb[BB] \cup p.bb[BQ] \cup p.bb[BK]
    IN  [p EXCEPT !.occ_white = w, !.occ_black = b, !.occ_all = w \cup b]

\* memset(pos, 0, sizeof *pos), then the five scalars
ffp_position_clear ==
    [bb |-> [pc \in 0..(PIECE_N - 1) |-> {}],
     occ_white |-> {}, occ_black |-> {}, occ_all |-> {},
     side |-> WHITE, castling |-> 0, ep_square |-> -1,
     halfmove_clock |-> 0, fullmove_number |-> 1]

(***************************************************************************)
(* Moves and the pseudo-legal generator                                    *)
(***************************************************************************)
\* add_move: (Move){from,to,piece,promo,captured,flags}
add_move(from, to, piece, captured, promo, flags) ==
    [from |-> from, to |-> to, piece |-> piece, promo |-> promo,
     captured |-> captured, flags |-> flags]

MapSeq(s, F(_)) == [i \in 1..Len(s) |-> F(s[i])]

\* int cap=-1; for (p=lo; p<=hi; p++) if (get_bit(pos->bb[p],to)) { cap=p; break; }
ScanCaptured(p, lo, hi, to) ==
    IF \E pc \in lo..hi : get_bit(p.bb[pc], to)
    THEN CHOOSE pc \in lo..hi : get_bit(p.bb[pc], to) /\ \A q \in lo..(pc - 1) : ~get_bit(p.bb[q], to)
    ELSE -1

\* get_bit(bb[P],to)?P : get_bit(bb[R],to)?R : ... : get_bit(bb[Q],to)?Q : K,
\* with lo the opponent's pawn (lo+1 rook, +2 knight, +3 bishop, +4 queen, +5 king)
ChainCaptured(p, lo, to) ==
    IF get_bit(p.bb[lo], to) THEN lo
    ELSE IF get_bit(p.bb[lo + 1], to) THEN lo + 1
    ELSE IF get_bit(p.bb[lo + 2], to) THEN lo + 2
    ELSE IF get_bit(p.bb[lo + 3], to) THEN lo + 3
    ELSE IF get_bit(p.bb[lo + 4], to) THEN lo + 4
    ELSE lo + 5

\* the four promotion moves of one from/to pair, in the order Q, R, B, N
PromoMoves(from, to, pawn, cap, flags) ==
    <<add_move(from, to, pawn, cap, pawn + 4, flags),
      add_move(from, to, pawn, cap, pawn + 1, flags),
      add_move(from, to, pawn, cap, pawn + 3, flags),
      add_move(from, to, pawn, cap, pawn + 2, flags)>>

WhitePawnMoves(p) ==
    LET pawns == p.bb[WP]
        opp == p.occ_black
        empty == Squares \ p.occ_all
        single == shift_north(pawns) \cap empty
        doublep == shift_north(single \cap RANK_MASK(3)) \cap empty
        promo_push == single \cap RANK_MASK(8)
        quiet_push == single \ RANK_MASK(8)
        capL == shift_nw(pawns) \cap opp
        capR == shift_ne(pawns) \cap opp
        promoL == capL \cap RANK_MASK(8)
        promoR == capR \cap RANK_MASK(8)
        normL == capL \ RANK_MASK(8)
        normR == capR \ RANK_MASK(8)
        Cap(to) == ScanCaptured(p, BP, BK, to)
        ep == IF p.ep_square # -1 THEN {p.ep_square} ELSE {}
    IN  MapSeq(BitsOf(quiet_push), LAMBDA to : add_move(to + 8, to, WP, -1, -1, MF_QUIET))
        \o MapSeq(BitsOf(doublep), LAMBDA to : add_move(to + 16, to, WP, -1, -1, MF_DOUBLE))
        \o Concat(MapSeq(BitsOf(promo_push), LAMBDA to : PromoMoves(to + 8, to, WP, -1, MF_PROMO)))
        \o MapSeq(BitsOf(normL), LAMBDA to : add_move(to + 9, to, WP, Cap(to), -1, MF_CAPTURE))
        \o MapSeq(BitsOf(normR), LAMBDA to : add_move(to + 7, to, WP, Cap(to), -1, MF_CAPTURE))
        \o Concat(MapSeq(BitsOf(promoL), LAMBDA to : PromoMoves(to + 9, to, WP, Cap(to), MF_CAPTURE + MF_PROMO)))
        \o Concat(MapSeq(BitsOf(promoR), LAMBDA to : PromoMoves(to + 7, to, WP, Cap(to), MF_CAPTURE + MF_PROMO)))
        \o (IF shift_nw(pawns) \cap ep # {}
            THEN <<add_move(p.ep_square + 9, p.ep_square, WP, BP, -1, MF_ENPASSANT + MF_CAPTURE)>>
            ELSE <<>>)
        \o (IF shift_ne(pawns) \cap ep # {}
            THEN <<add_move(p.ep_square + 7, p.ep_square, WP, BP, -1, MF_ENPASSANT + MF_CAPTURE)>>
            ELSE <<>>)

\* the black branch: the source computes from = to-9 for the shift_sw targets and
\* from = to-7 for the shift_se targets (lines 216, 220, 224, 231, 240, 241)
BlackPawnMoves(p) ==
    LET pawns == p.bb[BP]
        opp == p.occ_white
        empty == Squares \ p.occ_all
        single == shift_south(pawns) \cap empty
        doublep == shift_south(single \cap RANK_MASK(6)) \cap empty
        promo_push == single \cap RANK_MASK(1)
        quiet_push == single \ RANK_MASK(1)
        capL == shift_sw(pawns) \cap opp
        capR == shift_se(pawns) \cap opp
        promoL == capL \cap RANK_MASK(1)
        promoR == capR \cap RANK_MASK(1)
        normL == capL \ RANK_MASK(1)
        normR == capR \ RANK_MASK(1)
        Cap(to) == ScanCaptured(p, WP, WK, to)
        ep == IF p.ep_square # -1 THEN {p.ep_square} ELSE {}
    IN  MapSeq(BitsOf(quiet_push), LAMBDA to : add_move(to - 8, to, BP, -1, -1, MF_QUIET))
        \o MapSeq(BitsOf(doublep), LAMBDA to : add_move(to - 16, to, BP, -1, -1, MF_DOUBLE))
        \o Concat(MapSeq(BitsOf(promo_push), LAMBDA to : PromoMoves(to - 8, to, BP, -1, MF_PROMO)))
        \o MapSeq(BitsOf(normL), LAMBDA to : add_move(to - 9, to, BP, Cap(to), -1, MF_CAPTURE))
        \o MapSeq(BitsOf(normR), LAMBDA to : add_move(to - 7, to, BP, Cap(to), -1, MF_CAPTURE))
        \o Concat(MapSeq(BitsOf(promoL), LAMBDA to : PromoMoves(to - 9, to, BP, Cap(to), MF_CAPTURE + MF_PROMO)))
        \o Concat(MapSeq(BitsOf(promoR), LAMBDA to : PromoMoves(to - 7, to, BP, Cap(to), MF_CAPTURE + MF_PROMO)))
        \o (IF shift_sw(pawns) \cap ep # {}
            THEN <<add_move(p.ep_square - 9, p.ep_square, BP, WP, -1, MF_ENPASSANT + MF_CAPTURE)>>
            ELSE <<>>)
        \o (IF shift_se(pawns) \cap ep # {}
            THEN <<add_move(p.ep_square - 7, p.ep_square, BP, WP, -1, MF_ENPASSANT + MF_CAPTURE)>>
            ELSE <<>>)

\* one move per target of the piece standing on s
TargetMoves(p, piece, s, targets, opp, oppPawn) ==
    MapSeq(BitsOf(targets),
           LAMBDA to :
               LET cap == IF get_bit(opp, to) THEN ChainCaptured(p, oppPawn, to) ELSE -1
               IN  add_move(s, to, piece, cap, -1, IF cap # -1 THEN MF_CAPTURE ELSE MF_QUIET))

Own(p) == IF p.side = WHITE THEN p.occ_white ELSE p.occ_black

Opp(p) == IF p.side = WHITE THEN p.occ_black ELSE p.occ_white

OppPawn(p) == IF p.side = WHITE THEN BP ELSE WP

KnightMoves(p) ==
    LET piece == IF p.side = WHITE THEN WN ELSE BN
    IN  Concat(MapSeq(BitsOf(p.bb[piece]),
                      LAMBDA s : TargetMoves(p, piece, s, knight_attacks_from({s}) \ Own(p), Opp(p), OppPawn(p))))

BishopMoves(p) ==
    LET piece == IF p.side = WHITE THEN WB ELSE BB
    IN  Concat(MapSeq(BitsOf(p.bb[piece]),
                      LAMBDA s : TargetMoves(p, piece, s, bishop_attacks_from({s}, p.occ_all) \ Own(p), Opp(p), OppPawn(p))))

RookMoves(p) ==
    LET piece == IF p.side = WHITE THEN WR ELSE BR
    IN  Concat(MapSeq(BitsOf(p.bb[piece]),
                      LAMBDA s : TargetMoves(p, piece, s, rook_attacks_from({s}, p.occ_all) \ Own(p), Opp(p), OppPawn(p))))

QueenMoves(p) ==
    LET piece == IF p.side = WHITE THEN WQ ELSE BQ
    IN  Concat(MapSeq(BitsOf(p.bb[piece]),
                      LAMBDA s : TargetMoves(p, piece, s, queen_attacks_from({s}, p.occ_all) \ Own(p), Opp(p), OppPawn(p))))

\* a faulty variant of the operator below, which tests the king's origin and
\* destination squares and leaves out the square it crosses
CastleMove_NoTransit(p, bit, between, path, from, to, king, by) ==
    IF /\ HasFlag(p.castling, bit)
       /\ p.occ_all \cap between = {}
       /\ \A sq \in {from, to} : ~ffp_is_square_attacked(p, sq, by)
    THEN <<add_move(from, to, king, -1, -1, MF_CASTLE)>>
    ELSE <<>>

\* pos->castling & bit, the squares between empty, the king's three squares un-attacked
CastleMove(p, bit, between, path, from, to, king, by) ==
    IF /\ HasFlag(p.castling, bit)
       /\ p.occ_all \cap between = {}
       /\ \A sq \in path : ~ffp_is_square_attacked(p, sq, by)
    THEN <<add_move(from, to, king, -1, -1, MF_CASTLE)>>
    ELSE <<>>

KingMoves(p) ==
    IF p.side = WHITE
    THEN LET s == LSB_INDEX(p.bb[WK])
         IN  TargetMoves(p, WK, s, king_attacks_from({s}) \ p.occ_white, p.occ_black, BP)
             \o CastleMove(p, 1, {61, 62}, {60, 61, 62}, 60, 62, WK, BLACK)
             \o CastleMove(p, 2, {57, 58, 59}, {60, 59, 58}, 60, 58, WK, BLACK)
    ELSE LET s == LSB_INDEX(p.bb[BK])
         IN  TargetMoves(p, BK, s, king_attacks_from({s}) \ p.occ_black, p.occ_white, WP)
             \o CastleMove(p, 4, {5, 6}, {4, 5, 6}, 4, 6, BK, WHITE)
             \o CastleMove(p, 8, {1, 2, 3}, {4, 3, 2}, 4, 2, BK, WHITE)

ffp_generate_pseudo_legal(p) ==
    (IF p.side = WHITE THEN WhitePawnMoves(p) ELSE BlackPawnMoves(p))
    \o KnightMoves(p) \o BishopMoves(p) \o RookMoves(p) \o QueenMoves(p) \o KingMoves(p)

(***************************************************************************)
(* Make / unmake                                                           *)
(***************************************************************************)
set_bit(bb, piece, s) == [bb EXCEPT ![piece] = @ \cup {s}]

pop_bit(bb, piece, s) == [bb EXCEPT ![piece] = @ \ {s}]

move_piece_bb(bb, piece, from, to) == set_bit(pop_bit(bb, piece, from), piece, to)

\* a faulty variant of the operator below: c ^ mask, which sets a bit of mask that
\* was clear in c
ClearBits_Toggle(c, mask) ==
    (IF HasFlag(c, 1) # HasFlag(mask, 1) THEN 1 ELSE 0)
    + (IF HasFlag(c, 2) # HasFlag(mask, 2) THEN 2 ELSE 0)
    + (IF HasFlag(c, 4) # HasFlag(mask, 4) THEN 4 ELSE 0)
    + (IF HasFlag(c, 8) # HasFlag(mask, 8) THEN 8 ELSE 0)

\* c & ~mask on the four castling bits
ClearBits(c, mask) ==
    (IF HasFlag(c, 1) /\ ~HasFlag(mask, 1) THEN 1 ELSE 0)
    + (IF HasFlag(c, 2) /\ ~HasFlag(mask, 2) THEN 2 ELSE 0)
    + (IF HasFlag(c, 4) /\ ~HasFlag(mask, 4) THEN 4 ELSE 0)
    + (IF HasFlag(c, 8) /\ ~HasFlag(mask, 8) THEN 8 ELSE 0)

\* a faulty variant of the operator below, which moves the rook of a queen-side
\* castling to the king's destination square
CastleRook_QueenSideShort(bb, m, make) ==
    LET Go(rook, corner, inner) ==
            IF make THEN set_bit(pop_bit(bb, rook, corner), rook, inner)
                    ELSE set_bit(pop_bit(bb, rook, inner), rook, corner)
    IN  IF m.piece = WK
        THEN IF m.to = 62 THEN Go(WR, 63, 61)
             ELSE IF m.to = 58 THEN Go(WR, 56, 58)
             ELSE bb
        ELSE IF m.piece = BK
        THEN IF m.to = 6 THEN Go(BR, 7, 5)
             ELSE IF m.to = 2 THEN Go(BR, 0, 2)
             ELSE bb
        ELSE bb

\* lines 406-414 (dir = 1) and 442-450 (dir = 0): the rook's part of a CASTLE move
CastleRook(bb, m, make) ==
    LET Go(rook, corner, inner) ==
            IF make THEN set_bit(pop_bit(bb, rook, corner), rook, inner)
                    ELSE set_bit(pop_bit(bb, rook, inner), rook, corner)
    IN  IF m.piece = WK
        THEN IF m.to = 62 THEN Go(WR, 63, 61)
             ELSE IF m.to = 58 THEN Go(WR, 56, 59)
             ELSE bb
        ELSE IF m.piece = BK
        THEN IF m.to = 6 THEN Go(BR, 7, 5)
             ELSE IF m.to = 2 THEN Go(BR, 0, 3)
             ELSE bb
        ELSE bb

\* lines 416-422
CastlingAfter(c, m) ==
    LET c1 == IF m.from = 60 \/ m.to = 60 \/ m.piece = WK THEN ClearBits(c, 3) ELSE c
        c2 == IF m.from = 63 \/ (m.captured = WR /\ m.to = 63) THEN ClearBits(c1, 1) ELSE c1
        c3 == IF m.from = 56 \/ (m.captured = WR /\ m.to = 56) THEN ClearBits(c2, 2) ELSE c2
        c4 == IF m.from = 4 \/ m.to = 4 \/ m.piece = BK THEN ClearBits(c3, 12) ELSE c3
        c5 == IF m.from = 7 \/ (m.captured = BR /\ m.to = 7) THEN ClearBits(c4, 4) ELSE c4
        c6 == IF m.from = 0 \/ (m.captured = BR /\ m.to = 0) THEN ClearBits(c5, 8) ELSE c5
    IN  c6

\* the Undo record ffp_make_move fills in
UndoOf(p, m) ==
    [castling |-> p.castling, ep_square |-> p.ep_square,
     halfmove_clock |-> p.halfmove_clock, fullmove_number |-> p.fullmove_number,
     captured |-> m.captured]

\* a faulty variant of the operator below, which leaves the en-passant target of
\* the move before in place when the move is no double push
ffp_make_move_KeepsTarget(p, m) ==
    LET hm == IF type_of_piece(m.piece) = 0 \/ HasFlag(m.flags, MF_CAPTURE) \/ HasFlag(m.flags, MF_ENPASSANT)
              THEN 0 ELSE p.halfmove_clock + 1
        bb1 == IF HasFlag(m.flags, MF_ENPASSANT)
               THEN IF p.side = WHITE THEN pop_bit(p.bb, BP, m.to + 8) ELSE pop_bit(p.bb, WP, m.to - 8)
               ELSE IF m.captured # -1 THEN pop_bit(p.bb, m.captured, m.to)
               ELSE p.bb
        bb2 == move_piece_bb(bb1, m.piece, m.from, m.to)
        bb3 == IF HasFlag(m.flags, MF_PROMO)
               THEN IF p.side = WHITE THEN set_bit(pop_bit(bb2, WP, m.to), m.promo, m.to)
                                      ELSE set_bit(pop_bit(bb2, BP, m.to), m.promo, m.to)
               ELSE bb2
        bb4 == IF HasFlag(m.flags, MF_CASTLE) THEN CastleRook(bb3, m, TRUE) ELSE bb3
        ep == IF HasFlag(m.flags, MF_DOUBLE)
              THEN IF p.side = WHITE THEN m.to + 8 ELSE m.to - 8
              ELSE p.ep_square
        fm == IF p.side = BLACK THEN p.fullmove_number + 1 ELSE p.fullmove_number
    IN  update_occupancy([p EXCEPT !.bb = bb4,
                                   !.halfmove_clock = hm,
                                   !.ep_square = ep,
                                   !.castling = CastlingAfter(p.castling, m),
                                   !.fullmove_number = fm,
                                   !.side = OtherSide(p.side)])

\* the Position ffp_make_move leaves
ffp_make_move(p, m) ==
    LET hm == IF type_of_piece(m.piece) = 0 \/ HasFlag(m.flags, MF_CAPTURE) \/ HasFlag(m.flags, MF_ENPASSANT)
              THEN 0 ELSE p.halfmove_clock + 1
        bb1 == IF HasFlag(m.flags, MF_ENPASSANT)
               THEN IF p.side = WHITE THEN pop_bit(p.bb, BP, m.to + 8) ELSE pop_bit(p.bb, WP, m.to - 8)
               ELSE IF m.captured # -1 THEN pop_bit(p.bb, m.captured, m.to)
               ELSE p.bb
        bb2 == move_piece_bb(bb1, m.piece, m.from, m.to)
        bb3 == IF HasFlag(m.flags, MF_PROMO)
               THEN IF p.side = WHITE THEN set_bit(pop_bit(bb2, WP, m.to), m.promo, m.to)
                                      ELSE set_bit(pop_bit(bb2, BP, m.to), m.promo, m.to)
               ELSE bb2
        bb4 == IF HasFlag(m.flags, MF_CASTLE) THEN CastleRook(bb3, m, TRUE) ELSE bb3
        ep == IF HasFlag(m.flags, MF_DOUBLE)
              THEN IF p.side = WHITE THEN m.to + 8 ELSE m.to - 8
              ELSE -1
        fm == IF p.side = BLACK THEN p.fullmove_number + 1 ELSE p.fullmove_number
    IN  update_occupancy([p EXCEPT !.bb = bb4,
                                   !.halfmove_clock = hm,
                                   !.ep_square = ep,
                                   !.castling = CastlingAfter(p.castling, m),
                                   !.fullmove_number = fm,
                                   !.side = OtherSide(p.side)])

ffp_unmake_move(p, m, u) ==
    LET side == OtherSide(p.side)
        bb1 == set_bit(pop_bit(p.bb, m.piece, m.to), m.piece, m.from)
        bb2 == IF HasFlag(m.flags, MF_PROMO)
               THEN IF side = WHITE THEN set_bit(pop_bit(bb1, m.promo, m.to), WP, m.from)
                                    ELSE set_bit(pop_bit(bb1, m.promo, m.to), BP, m.from)
               ELSE bb1
        bb3 == IF HasFlag(m.flags, MF_CASTLE) THEN CastleRook(bb2, m, FALSE) ELSE bb2
        bb4 == IF HasFlag(m.flags, MF_ENPASSANT)
               THEN IF side = WHITE THEN set_bit(bb3, BP, m.to + 8) ELSE set_bit(bb3, WP, m.to - 8)
               ELSE IF u.captured # -1 THEN set_bit(bb3, u.captured, m.to)
               ELSE bb3
    IN  update_occupancy([p EXCEPT !.castling = u.castling,
                                   !.ep_square = u.ep_square,
                                   !.halfmove_clock = u.halfmove_clock,
                                   !.fullmove_number = u.fullmove_number,
                                   !.side = side,
                                   !.bb = bb4])

(***************************************************************************)
(* Legal move generation                                                   *)
(***************************************************************************)
\* lines 467-474: the move made on a copy, the mover's king tested
\* a faulty variant of the filter below, which keeps every pseudo-legal move
LeavesKingSafe_KeepAll(p, m) == TRUE

LeavesKingSafe(p, m) ==
    LET q == ffp_make_move(p, m)
    IN  IF q.side = WHITE
        THEN ~ffp_is_square_attacked(q, LSB_INDEX(q.bb[BK]), WHITE)
        ELSE ~ffp_is_square_attacked(q, LSB_INDEX(q.bb[WK]), BLACK)

ffp_generate_legal(p) ==
    SelectSeq(ffp_generate_pseudo_legal(p), LAMBDA m : LeavesKingSafe(p, m))


(***************************************************************************)
(* FEN.  A C string is the sequence of its characters (one-character       *)
(* strings); reading at or past its end gives the terminator NUL.          *)
(***************************************************************************)
NUL == ""

Chars(str) == [i \in 1..Len(str) |-> SubSeq(str, i, i)]

Ch(s, i) == IF i >= 1 /\ i <= Len(s) THEN s[i] ELSE NUL

DigitChars == <<"0", "1", "2", "3", "4", "5", "6", "7", "8", "9">>

FileChars == <<"a", "b", "c", "d", "e", "f", "g", "h">>

PIECE_CHARS == <<"P", "R", "N", "B", "Q", "K", "p", "r", "n", "b", "q", "k">>

\* the index (from 0) of c in cs, -1 when it is not there
IndexIn(cs, c) ==
    IF \E i \in 1..Len(cs) : cs[i] = c
    THEN (CHOOSE i \in 1..Len(cs) : cs[i] = c) - 1
    ELSE -1

isdigit(c) == IndexIn(DigitChars, c) # -1

isspace(c) == c \in {" ", "\t", "\n", "\r", "\f"}

\* the digits of atoi, from s[i] on, value so far acc
RECURSIVE AtoiDigits(_, _, _)
AtoiDigits(s, i, acc) ==
    IF isdigit(Ch(s, i)) THEN AtoiDigits(s, i + 1, acc * 10 + IndexIn(DigitChars, Ch(s, i))) ELSE acc

RECURSIVE SkipSpace(_, _)
SkipSpace(s, i) == IF isspace(Ch(s, i)) THEN SkipSpace(s, i + 1) ELSE i

\* atoi(s + i - 1): white space, an optional sign, digits
atoi(s, i) ==
    LET j == SkipSpace(s, i)
    IN  IF Ch(s, j) = "-" THEN 0 - AtoiDigits(s, j + 1, 0)
        ELSE IF Ch(s, j) = "+" THEN AtoiDigits(s, j + 1, 0)
        ELSE AtoiDigits(s, j, 0)

\* while (*p == ' ') p++;
RECURSIVE SkipBlanks(_, _)
SkipBlanks(s, i) == IF Ch(s, i) = " " THEN SkipBlanks(s, i + 1) ELSE i

\* if (*p == ' ') p++;
SkipBlank(s, i) == IF Ch(s, i) = " " THEN i + 1 ELSE i

\* while (*p && *p != ' ') p++;
RECURSIVE SkipToken(_, _)
SkipToken(s, i) == IF Ch(s, i) # NUL /\ Ch(s, i) # " " THEN SkipToken(s, i + 1) ELSE i

\* lines 503-521: the placement loop.  st = [ok, i, file, rank, bb]; ok = FALSE is
\* a return false inside the loop, with the piece-sets as they are at that point
RECURSIVE FenPlacement(_, _)
FenPlacement(fen, st) ==
    LET c == Ch(fen, st.i)
    IN  IF c = NUL \/ st.rank < 0 \/ c = " " THEN st
        ELSE IF c = "/"
        THEN IF st.file # 8 THEN [st EXCEPT !.ok = FALSE]
             ELSE FenPlacement(fen, [st EXCEPT !.file = 0, !.rank = @ - 1, !.i = @ + 1])
        ELSE IF isdigit(c)
        THEN LET n == IndexIn(DigitChars, c)
             IN  IF n < 1 \/ n > 8 \/ st.file + n > 8 THEN [st EXCEPT !.ok = FALSE]
                 ELSE FenPlacement(fen, [st EXCEPT !.file = @ + n, !.i = @ + 1])
        ELSE LET piece == IndexIn(PIECE_CHARS, c)
             IN  IF piece = -1 \/ st.file >= 8 THEN [st EXCEPT !.ok = FALSE]
                 ELSE LET sq == (7 - st.rank) * 8 + st.file
                          nx == [st EXCEPT !.bb = set_bit(@, piece, sq), !.file = @ + 1, !.i = @ + 1]
                      IN  IF nx.file = 8 /\ nx.rank > 0 /\ Ch(fen, nx.i) # "/" /\ Ch(fen, nx.i) # " "
                          THEN [nx EXCEPT !.ok = FALSE]
                          ELSE FenPlacement(fen, nx)

\* lines 537-544: the castling letters.  st = [ok, i, castling]
RECURSIVE FenCastling(_, _)
FenCastling(fen, st) ==
    LET c == Ch(fen, st.i)
        Or(bit) == IF HasFlag(st.castling, bit) THEN st.castling ELSE st.castling + bit
    IN  IF c = NUL \/ c = " " THEN st
        ELSE IF c = "K" THEN FenCastling(fen, [st EXCEPT !.castling = Or(1), !.i = @ + 1])
        ELSE IF c = "Q" THEN FenCastling(fen, [st EXCEPT !.castling = Or(2), !.i = @ + 1])
        ELSE IF c = "k" THEN FenCastling(fen, [st EXCEPT !.castling = Or(4), !.i = @ + 1])
        ELSE IF c = "q" THEN FenCastling(fen, [st EXCEPT !.castling = Or(8), !.i = @ + 1])
        ELSE [st EXCEPT !.ok = FALSE]

\* a return from ffp_position_from_fen: [ok |-> the return value, pos |-> *pos then]
FenFail(p) == [ok |-> FALSE, pos |-> p]

\* line 562: the fullmove number, when anything is left at index i
FenFullmove(fen, p, i) ==
    IF Ch(fen, i) # NUL THEN [p EXCEPT !.fullmove_number = atoi(fen, i)] ELSE p

\* line 561: the halfmove clock, when anything is left at index i, then line 562
FenHalfmove(fen, p, i) ==
    IF Ch(fen, i) = NUL THEN FenFullmove(fen, p, i)
    ELSE FenFullmove(fen, [p EXCEPT !.halfmove_clock = atoi(fen, i)],
                     SkipBlank(fen, SkipToken(fen, i)))

\* lines 549-565: the en-passant field at index i, the counters, update_occupancy
FenEnPassant(fen, p, i) ==
    IF Ch(fen, i) = "-"
    THEN [ok |-> TRUE,
          pos |-> update_occupancy(FenHalfmove(fen, [p EXCEPT !.ep_square = -1], SkipBlank(fen, i + 1)))]
    ELSE IF /\ IndexIn(FileChars, Ch(fen, i)) # -1
            /\ IndexIn(DigitChars, Ch(fen, i + 1)) >= 1
            /\ IndexIn(DigitChars, Ch(fen, i + 1)) <= 8
    THEN [ok |-> TRUE,
          pos |-> update_occupancy(FenHalfmove(fen,
                      [p EXCEPT !.ep_square = (IndexIn(DigitChars, Ch(fen, i + 1)) - 1) * 8
                                              + IndexIn(FileChars, Ch(fen, i))],
                      SkipBlank(fen, i + 2)))]
    ELSE FenFail(p)

\* lines 546-547: after the castling field, ca = [ok, i, castling] as the loop left it
FenAfterCastling(fen, p, ca) ==
    IF ~ca.ok \/ Ch(fen, ca.i) # " " THEN FenFail([p EXCEPT !.castling = ca.castling])
    ELSE FenEnPassant(fen, [p EXCEPT !.castling = ca.castling], ca.i + 1)

\* lines 529-545: the blank after the side letter at index i - 1, the castling field
FenCastlingField(fen, p, i) ==
    IF Ch(fen, i) # " " THEN FenFail(p)
    ELSE FenAfterCastling(fen, p,
             IF Ch(fen, i + 1) = "-"
             THEN [ok |-> TRUE, i |-> i + 2, castling |-> 0]
             ELSE FenCastling(fen, [ok |-> TRUE, i |-> i + 1, castling |-> 0]))

\* lines 526-528: the side letter at index i
FenSide(fen, p, i) ==
    IF Ch(fen, i) = "w" THEN FenCastlingField(fen, [p EXCEPT !.side = WHITE], i + 1)
    ELSE IF Ch(fen, i) = "b" THEN FenCastlingField(fen, [p EXCEPT !.side = BLACK], i + 1)
    ELSE FenFail(p)

\* lines 522-523: after the placement loop, pl = [ok, i, file, rank, bb] as it left it
FenAfterPlacement(fen, pl) ==
    IF ~pl.ok \/ pl.rank # 0 \/ pl.file # 8
    THEN FenFail([ffp_position_clear EXCEPT !.bb = pl.bb])
    ELSE FenSide(fen, [ffp_position_clear EXCEPT !.bb = pl.bb], SkipBlanks(fen, pl.i))

\* ffp_position_from_fen: [ok |-> the return value, pos |-> *pos at the return]
ffp_position_from_fen(fen) ==
    FenAfterPlacement(fen, FenPlacement(fen,
        [ok |-> TRUE, i |-> 1, file |-> 0, rank |-> 7, bb |-> ffp_position_clear.bb]))

FFP_FEN_STARTPOS == Chars("rnbqkbnr/pppppppp/8/8/8/8/PPPPPPPP/RNBQKBNR w KQkq - 0 1")

ffp_position_set_start == ffp_position_from_fen(FFP_FEN_STARTPOS).pos

\* snprintf "%d"
RECURSIVE NatChars(_)
NatChars(n) == IF n < 10 THEN <<DigitChars[n + 1]>> ELSE NatChars(n \div 10) \o <<DigitChars[(n % 10) + 1]>>

IntChars(n) == IF n < 0 THEN <<"-">> \o NatChars(0 - n) ELSE NatChars(n)

\* lines 580-594: one rank of the placement, files 0..7 of the squares rank*8 + file
RECURSIVE FenRank(_, _, _, _)
FenRank(p, rank, file, empty) ==
    IF file = 8 THEN (IF empty > 0 THEN <<DigitChars[empty + 1]>> ELSE <<>>)
    ELSE LET sq == rank * 8 + file
             piece == ScanCaptured(p, 0, PIECE_N - 1, sq)
         IN  IF piece = -1 THEN FenRank(p, rank, file + 1, empty + 1)
             ELSE (IF empty > 0 THEN <<DigitChars[empty + 1]>> ELSE <<>>)
                  \o <<PIECE_CHARS[piece + 1]>> \o FenRank(p, rank, file + 1, 0)

\* for (rank = 7; rank >= 0; --rank)
RECURSIVE FenRanks(_, _)
FenRanks(p, rank) ==
    IF rank < 0 THEN <<>>
    ELSE FenRank(p, rank, 0, 0) \o (IF rank > 0 THEN <<"/">> ELSE <<>>) \o FenRanks(p, rank - 1)

\* ffp_position_to_fen into a buffer that is long enough (the function returns true)
ffp_position_to_fen(p) ==
    FenRanks(p, 7)
    \o <<" ", IF p.side = WHITE THEN "w" ELSE "b", " ">>
    \o (IF p.castling = 0 THEN <<"-">>
        ELSE (IF HasFlag(p.castling, 1) THEN <<"K">> ELSE <<>>)
             \o (IF HasFlag(p.castling, 2) THEN <<"Q">> ELSE <<>>)
             \o (IF HasFlag(p.castling, 4) THEN <<"k">> ELSE <<>>)
             \o (IF HasFlag(p.castling, 8) THEN <<"q">> ELSE <<>>))
    \o <<" ">>
    \o (IF p.ep_square = -1 THEN <<"-">>
        ELSE <<FileChars[(p.ep_square % 8) + 1], DigitChars[(p.ep_square \div 8) + 2]>>)
    \o <<" ">>
    \o IntChars(p.halfmove_clock) \o <<" ">> \o IntChars(p.fullmove_number)


(***************************************************************************)
(* Evaluation and search: the pure parts                                   *)
(***************************************************************************)
PIECE_VAL == <<100, 500, 320, 330, 900, 20000>>

evaluate(p) ==
    LET s == (popcount64(p.bb[WP]) * PIECE_VAL[1] + popcount64(p.bb[WR]) * PIECE_VAL[2]
              + popcount64(p.bb[WN]) * PIECE_VAL[3] + popcount64(p.bb[WB]) * PIECE_VAL[4]
              + popcount64(p.bb[WQ]) * PIECE_VAL[5])
           - (popcount64(p.bb[BP]) * PIECE_VAL[1] + popcount64(p.bb[BR]) * PIECE_VAL[2]
              + popcount64(p.bb[BN]) * PIECE_VAL[3] + popcount64(p.bb[BB]) * PIECE_VAL[4]
              + popcount64(p.bb[BQ]) * PIECE_VAL[5])
    IN  IF p.side = WHITE THEN s ELSE -s

\* a faulty variant of the operator below, which does not read the stop flag
search_should_abort_NoStop(cx, stop, elapsed) ==
    \/ cx.aborted
    \/ cx.limits.node_limit # 0 /\ cx.nodes >= cx.limits.node_limit
    \/ cx.limits.time_ms > 0 /\ elapsed >= cx.limits.time_ms

\* a faulty variant of the operator below, which lets the node counter pass the limit
search_should_abort_PastLimit(cx, stop, elapsed) ==
    \/ cx.aborted
    \/ cx.limits.node_limit # 0 /\ cx.nodes > cx.limits.node_limit
    \/ cx.limits.stop /\ stop
    \/ cx.limits.time_ms > 0 /\ elapsed >= cx.limits.time_ms

\* what search_should_abort returns, which is also what it leaves in ctx->aborted;
\* stop is the value of the caller's flag, elapsed the clock reading, at the call
search_should_abort(cx, stop, elapsed) ==
    \/ cx.aborted
    \/ cx.limits.node_limit # 0 /\ cx.nodes >= cx.limits.node_limit
    \/ cx.limits.stop /\ stop
    \/ cx.limits.time_ms > 0 /\ elapsed >= cx.limits.time_ms

\* the side to move has its king attacked
InCheck(p) ==
    LET ks == IF p.side = WHITE THEN LSB_INDEX(p.bb[WK]) ELSE LSB_INDEX(p.bb[BK])
    IN  ffp_is_square_attacked(p, ks, OtherSide(p.side))

\* alphabeta's value of a node without legal moves
NoMoveScore(p, depth) == IF InCheck(p) THEN -20000 + (5 - depth) ELSE 0

\* a faulty variant of the operator below, which scores the root as alphabeta
\* scores a node at depth 0
RootNoMoveScore_AsNode(p) == NoMoveScore(p, 0)

\* ffp_search's value of a root without legal moves
RootNoMoveScore(p) == IF InCheck(p) THEN -20000 ELSE 0

\* a faulty variant of the operator below, with a default depth of 3
EffectiveLimits_Shallow(lim) ==
    IF lim.max_depth <= 0 THEN [lim EXCEPT !.max_depth = 3] ELSE lim

\* the SearchLimits ffp_search works with: the caller's, with the default depth for
\* a max_depth that is not positive
EffectiveLimits(lim) ==
    IF lim.max_depth <= 0 THEN [lim EXCEPT !.max_depth = 4] ELSE lim

NoMove == [from |-> -1, to |-> -1, piece |-> -1, promo |-> -1, captured |-> -1, flags |-> 0]

NoUndo == [castling |-> 0, ep_square |-> 0, halfmove_clock |-> 0, fullmove_number |-> 0,
           captured |-> 0]

NoLimits == [max_depth |-> 0, time_ms |-> 0, node_limit |-> 0, stop |-> FALSE]

InitialResult ==
    [best_move |-> NoMove, depth_reached |-> 0, score |-> 0, nodes |-> 0, aborted |-> FALSE]

\* a root move's score against the best of the iteration so far
RootUpdate(rt, score) ==
    IF ~rt.found \/ score > rt.best_score
    THEN [rt EXCEPT !.best_score = score, !.best_move_depth = rt.moves[rt.i], !.found = TRUE]
    ELSE rt

\* a faulty variant of IterationResult, which takes the interrupted iteration's
\* partial best as well
IterationResult_KeepPartial(res, rt, cx) ==
    LET r1 == [res EXCEPT !.nodes = cx.nodes, !.aborted = cx.aborted]
    IN  IF rt.found
        THEN [r1 EXCEPT !.best_move = rt.best_move_depth, !.depth_reached = rt.depth,
                        !.score = rt.best_score]
        ELSE r1

\* the SearchResult after the root-move loop of one iteration has ended
IterationResult(res, rt, cx) ==
    LET r1 == [res EXCEPT !.nodes = cx.nodes, !.aborted = cx.aborted]
    IN  IF ~cx.aborted /\ rt.found
        THEN [r1 EXCEPT !.best_move = rt.best_move_depth, !.depth_reached = rt.depth,
                        !.score = rt.best_score]
        ELSE r1

\* best_so_far after the root-move loop of one iteration has ended
IterationBest(rt, cx) ==
    IF ~cx.aborted /\ rt.found THEN rt.best_move_depth ELSE rt.best_so_far

\* a faulty variant of FinalResult, which does not fall back on best_so_far
FinalResult_NoFallback(res, best_so_far, cx) ==
    [res EXCEPT !.nodes = cx.nodes, !.aborted = cx.aborted]

\* the SearchResult that ffp_search returns once the iterations are over
FinalResult(res, best_so_far, cx) ==
    [res EXCEPT !.best_move = IF res.best_move.from = -1 THEN best_so_far ELSE @,
                !.nodes = cx.nodes, !.aborted = cx.aborted]

\* no search is running
SearchIdle ==
    /\ phase = "idle"
    /\ ctx = [nodes |-> 0, aborted |-> FALSE, limits |-> NoLimits]
    /\ root = [moves |-> <<>>, depth |-> 0, i |-> 0, best_score |-> 0,
               best_move_depth |-> NoMove, found |-> FALSE, best_so_far |-> NoMove,
               u |-> NoUndo]
    /\ frames = <<>>
    /\ ret = 0
    /\ result = InitialResult
    /\ stopFlag = FALSE
    /\ elapsed_ms = 0
    /\ limits = NoLimits
    /\ hist = [entry |-> ffp_position_clear, iters |-> <<>>, firedAt |-> 0]


(***************************************************************************)
(* Coordinate moves: ffp_move_to_string, ffp_move_from_string, and the     *)
(* position command of uci_loop                                            *)
(***************************************************************************)
\* the letter of a promotion piece: (t==4)?'q':(t==1)?'r':(t==3)?'b':'n'
PromoChar(promo) ==
    LET t == type_of_piece(promo)
    IN  IF t = 4 THEN "q" ELSE IF t = 1 THEN "r" ELSE IF t = 3 THEN "b" ELSE "n"

\* 'a' + (sq % 8), '1' + (sq / 8)
SquareChars(sq) == <<FileChars[(sq % 8) + 1], DigitChars[(sq \div 8) + 2]>>

\* the text ffp_move_to_string writes to out
ffp_move_to_string(m) ==
    IF m.from < 0 \/ m.to < 0 THEN <<>>
    ELSE SquareChars(m.from) \o SquareChars(m.to)
         \o (IF HasFlag(m.flags, MF_PROMO) THEN <<PromoChar(m.promo)>> ELSE <<>>)

\* c - 'a' when it is in 0..7, -1 when it is out of that range
FileIndex(c) == IndexIn(FileChars, c)

\* c - '1' when it is in 0..7, -1 when it is out of that range
RankIndex(c) ==
    IF IndexIn(DigitChars, c) >= 1 /\ IndexIn(DigitChars, c) <= 8
    THEN IndexIn(DigitChars, c) - 1
    ELSE -1

\* lines 789-796: the promotion piece the fifth character asks for, -1 for none
PromoAsked(p, c) ==
    IF c \in {"q", "Q"} THEN (IF p.side = WHITE THEN WQ ELSE BQ)
    ELSE IF c \in {"r", "R"} THEN (IF p.side = WHITE THEN WR ELSE BR)
    ELSE IF c \in {"b", "B"} THEN (IF p.side = WHITE THEN WB ELSE BB)
    ELSE IF c \in {"n", "N"} THEN (IF p.side = WHITE THEN WN ELSE BN)
    ELSE -1

\* line 800-801: the legal move mv answers the request
MoveMatches(mv, from, to, promo) ==
    /\ mv.from = from
    /\ mv.to = to
    /\ \/ promo = -1 /\ ~HasFlag(mv.flags, MF_PROMO)
       \/ promo # -1 /\ HasFlag(mv.flags, MF_PROMO) /\ mv.promo = promo

\* lines 797-807: the first legal move that answers the request
FirstMatch(legal, from, to, promo) ==
    IF \E i \in 1..Len(legal) : MoveMatches(legal[i], from, to, promo)
    THEN [ok |-> TRUE,
          mv |-> legal[CHOOSE i \in 1..Len(legal) :
                           /\ MoveMatches(legal[i], from, to, promo)
                           /\ \A j \in 1..(i - 1) : ~MoveMatches(legal[j], from, to, promo)]]
    ELSE [ok |-> FALSE, mv |-> NoMove]

\* ffp_move_from_string: [ok |-> the return value, mv |-> *out_move when it is written]
ffp_move_from_string(p, text) ==
    IF Len(text) < 4 THEN [ok |-> FALSE, mv |-> NoMove]
    ELSE IF \/ FileIndex(text[1]) < 0 \/ FileIndex(text[3]) < 0
            \/ RankIndex(text[2]) < 0 \/ RankIndex(text[4]) < 0
    THEN [ok |-> FALSE, mv |-> NoMove]
    ELSE FirstMatch(ffp_generate_legal(p),
                    RankIndex(text[2]) * 8 + FileIndex(text[1]),
                    RankIndex(text[4]) * 8 + FileIndex(text[3]),
                    PromoAsked(p, Ch(text, 5)))

\* lines 860-866: the first five characters of a move token
MvBuf(tok) == SubSeq(tok, 1, IF Len(tok) < 5 THEN Len(tok) ELSE 5)

\* lines 857-873: the move tokens applied in order, n of them accepted so far
RECURSIVE UciMoves(_, _, _)
UciMoves(p, toks, n) ==
    IF toks = <<>> THEN [pos |-> p, accepted |-> n]
    ELSE IF ffp_move_from_string(p, MvBuf(Head(toks))).ok
    THEN UciMoves(ffp_make_move(p, ffp_move_from_string(p, MvBuf(Head(toks))).mv),
                  Tail(toks), n + 1)
    ELSE UciMoves(p, Tail(toks), n)

\* lines 844-851: the text given to ffp_position_from_fen, which ends with the fifth blank
RECURSIVE UciFenText(_, _, _)
UciFenText(s, i, spaces) ==
    IF Ch(s, i) = NUL \/ Ch(s, i) = "\n" THEN <<>>
    ELSE IF Ch(s, i) = " " /\ spaces = 4 THEN <<" ">>
    ELSE <<s[i]>> \o UciFenText(s, i + 1, IF Ch(s, i) = " " THEN spaces + 1 ELSE spaces)

\* lines 841-853: the Position the command starts from, c.start = "startpos" or "fen"
UciStart(p, c) ==
    IF c.start = "startpos" THEN ffp_position_set_start
    ELSE IF c.start = "fen" THEN ffp_position_from_fen(UciFenText(c.fen, 1, 0)).pos
    ELSE p

\* no position command handled, no coordinate move parsed or written
CoordIdle ==
    /\ uci = [cmd |-> [start |-> "", fen |-> <<>>, moves |-> <<>>], accepted |-> 0]
    /\ parsed = [text |-> <<>>, ok |-> FALSE, mv |-> NoMove]
    /\ rendered = [mv |-> NoMove, str |-> <<>>]
    /\ io = [gos |-> 0, lines |-> <<>>]
    /\ input = <<>>


(***************************************************************************)
(* The position API as a state machine: a caller that loads positions and  *)
(* makes and unmakes generated legal moves, at most MaxPly moves deep, and  *)
(* at most MidPly or StartPly moves deep from the positions with many      *)
(* moves.                                                                  *)
(***************************************************************************)
MaxPly == 3

StartPly == 1

MidPly == 2

\* the FEN texts of the positions the caller loads and makes no move from
LoadOnlyFens ==
    {Chars("rnbqkbnr/ppp1p1pp/8/3pPp2/8/8/PPPP1PPP/RNBQKBNR w KQkq f6 0 3"),
     Chars("4k3/8/8/8/8/8/8/4K3 w KQkq - 0 1"),
     Chars("4k3/8/8/8/8/8/8/8 w - - 0 1")}

\* the FEN texts of the positions from which the caller plays StartPly moves deep
ShallowFens ==
    {FFP_FEN_STARTPOS,
     Chars("r3k2r/8/8/8/8/8/8/R3K2R w KQkq - 0 1"),
     Chars("8/P7/8/8/8/8/8/k6K w - - 0 1"),
     Chars("4k3/8/8/8/8/8/2p5/1R2K3 b - - 0 1"),
     Chars("k7/8/1K6/8/8/8/8/7R w - - 0 1")}

\* the FEN texts of the positions from which the caller plays MidPly moves deep
MidFens == {Chars("k7/3p4/K7/4P3/8/8/8/8 b - - 0 1")}

\* how deep the caller plays from the position loaded from the text f
PlyBound(f) ==
    IF f \in LoadOnlyFens THEN 0
    ELSE IF f \in ShallowFens THEN StartPly
    ELSE IF f \in MidFens THEN MidPly
    ELSE MaxPly

\* the FEN texts the caller loads in Spec
GameFens ==
    {Chars("k7/8/K7/3p4/4P3/8/8/8 b - - 0 1"),
     Chars("k7/3p4/K7/4P3/8/8/8/8 b - - 0 1"),
     Chars("k7/8/1K6/8/8/8/8/7R w - - 0 1"),
     Chars("4k3/8/8/8/8/8/8/4K3 x - - 0 1"),
     Chars("8/P7/8/8/8/8/8/k6K w - - 0 1"),
     Chars("r3k2r/8/8/8/8/8/8/R3K2R w KQkq - 0 1"),
     Chars("4k3/8/8/8/8/8/2p5/1R2K3 b - - 0 1")}
    \cup LoadOnlyFens

HasKings(p) == p.bb[WK] # {} /\ p.bb[BK] # {}

Init ==
    /\ pos = ffp_position_clear
    /\ undoStack = <<>>
    /\ snap = ffp_position_clear
    /\ lastOp = "clear"
    /\ fenIn = <<>>
    /\ fenOk = FALSE
    /\ fenOut = <<>>
    /\ SearchIdle
    /\ CoordIdle

Clear ==
    /\ pos' = ffp_position_clear
    /\ undoStack' = <<>>
    /\ lastOp' = "clear"
    /\ fenOk' = FALSE
    /\ fenIn' = <<>>
    /\ snap' = ffp_position_clear
    /\ UNCHANGED fenOut
    /\ UNCHANGED searchVars
    /\ UNCHANGED coordVars

SetStart ==
    /\ pos' = ffp_position_set_start
    /\ undoStack' = <<>>
    /\ lastOp' = "set_start"
    /\ fenIn' = FFP_FEN_STARTPOS
    /\ fenOk' = TRUE
    /\ snap' = ffp_position_clear
    /\ UNCHANGED fenOut
    /\ UNCHANGED searchVars
    /\ UNCHANGED coordVars

FromFen ==
    \E f \in GameFens :
        LET r == ffp_position_from_fen(f)
        IN  /\ pos' = r.pos
            /\ fenOk' = r.ok
            /\ fenIn' = f
            /\ undoStack' = <<>>
            /\ lastOp' = "from_fen"
            /\ snap' = ffp_position_clear
            /\ UNCHANGED fenOut
            /\ UNCHANGED searchVars
            /\ UNCHANGED coordVars

MakeMove ==
    /\ fenOk
    /\ HasKings(pos)
    /\ Len(undoStack) < PlyBound(fenIn)
    /\ LET ml == ffp_generate_legal(pos)
       IN  \E i \in 1..Len(ml) :
               /\ pos' = ffp_make_move(pos, ml[i])
               /\ undoStack' = Append(undoStack, [m |-> ml[i], u |-> UndoOf(pos, ml[i]), before |-> pos])
    /\ lastOp' = "make"
    /\ snap' = ffp_position_clear
    /\ UNCHANGED <<fenIn, fenOk, fenOut>>
    /\ UNCHANGED searchVars
    /\ UNCHANGED coordVars

UnmakeMove ==
    /\ undoStack # <<>>
    /\ LET top == undoStack[Len(undoStack)]
       IN  /\ pos' = ffp_unmake_move(pos, top.m, top.u)
           /\ snap' = top.before
    /\ undoStack' = SubSeq(undoStack, 1, Len(undoStack) - 1)
    /\ lastOp' = "unmake"
    /\ UNCHANGED <<fenIn, fenOk, fenOut>>
    /\ UNCHANGED searchVars
    /\ UNCHANGED coordVars

Next == Clear \/ SetStart \/ FromFen \/ MakeMove \/ UnmakeMove

Spec == Init /\ [][Next]_vars


(***************************************************************************)
(* The FEN loader and emitter applied to texts drawn from a bounded set:   *)
(* every combination of the fields below, joined by single spaces, a       *)
(* missing field ("") left out together with its space.                    *)
(***************************************************************************)
FenPlacements ==
    {"rnbqkbnr/pppppppp/8/8/8/8/PPPPPPPP/RNBQKBNR",
     "4k3/8/8/8/8/8/8/4K3",
     "8/8/8/8/8/8/8/8",
     "r3k2r/8/8/3pP3/8/8/8/R3K2R",
     "4k3/8/8/8/8/8/8/4K2",
     "4k3/8/8/8/8/8/8/5K3",
     "4k3/8/8/8/8/8/4K3",
     "4k3/8/8/8/8/8/8/8/4K3",
     "4k3/8/8/8/8/8/8/4X3",
     "4k3/8/8/8/8/8/8/4K12"}

FenSides == {"w", "b", "x", ""}

FenCastlings == {"-", "KQkq", "Kq", "KxQ", ""}

FenEnPassants == {"-", "d6", "e3", "e4", "h8", "i3", "e9", ""}

FenCounters == {"", "0 1", "12 34"}

FenJoin(a, b) == IF b = "" THEN a ELSE a \o " " \o b

FenInputs ==
    {Chars(FenJoin(FenJoin(FenJoin(FenJoin(pl, sd), ca), ep), ctr)) :
        pl \in FenPlacements, sd \in FenSides, ca \in FenCastlings,
        ep \in FenEnPassants, ctr \in FenCounters}

InitFen ==
    /\ pos = ffp_position_clear
    /\ undoStack = <<>>
    /\ snap = ffp_position_clear
    /\ lastOp = "clear"
    /\ fenIn \in FenInputs
    /\ fenOk = FALSE
    /\ fenOut = <<>>
    /\ SearchIdle
    /\ CoordIdle

LoadFen ==
    /\ lastOp = "clear"
    /\ LET r == ffp_position_from_fen(fenIn)
       IN  /\ pos' = r.pos
           /\ fenOk' = r.ok
    /\ lastOp' = "from_fen"
    /\ UNCHANGED <<undoStack, snap, fenIn, fenOut>>
    /\ UNCHANGED searchVars
    /\ UNCHANGED coordVars

EmitFen ==
    /\ lastOp = "from_fen"
    /\ fenOut' = ffp_position_to_fen(pos)
    /\ lastOp' = "to_fen"
    /\ UNCHANGED <<pos, undoStack, snap, fenIn, fenOk>>
    /\ UNCHANGED searchVars
    /\ UNCHANGED coordVars

NextFen == LoadFen \/ EmitFen

SpecFen == InitFen /\ [][NextFen]_vars


(***************************************************************************)
(* ffp_search as a state machine.  One step runs the code from one call of *)
(* search_should_abort, or one make or unmake of a move, to the next; the  *)
(* caller's stop flag and the clock change between the steps.              *)
(***************************************************************************)
MaxDepth == 3

StartDepth == 2

MaxNodes == 24

MaxTimeMs == 1

\* the root positions searched, each with the deepest max_depth asked for
SearchRoots ==
    {[fen |-> FFP_FEN_STARTPOS, depth |-> StartDepth],
     [fen |-> Chars("k7/2p5/K7/3P4/8/8/8/8 w - - 0 1"), depth |-> MaxDepth],
     [fen |-> Chars("4k3/8/8/3p4/4P3/8/8/4K3 b - - 0 1"), depth |-> MaxDepth],
     [fen |-> Chars("k7/8/1K6/8/8/8/8/7R w - - 0 1"), depth |-> MaxDepth],
     [fen |-> Chars("7k/5Q2/6K1/8/8/8/8/8 b - - 0 1"), depth |-> MaxDepth],
     [fen |-> Chars("7k/6Q1/6K1/8/8/8/8/8 b - - 0 1"), depth |-> MaxDepth],
     [fen |-> Chars("8/8/8/8/8/8/1kP5/7K w - - 0 1"), depth |-> StartDepth],
     [fen |-> Chars("7k/5P2/6K1/8/8/8/8/8 w - - 0 1"), depth |-> 0]}

\* the SearchLimits tried on a root: a depth alone, the default depth under a node
\* limit, a depth under a time limit, a depth with a stop flag
SearchLimitsOf(depth) ==
    {[NoLimits EXCEPT !.max_depth = d] : d \in 1..depth}
    \cup {[NoLimits EXCEPT !.node_limit = n] : n \in 1..MaxNodes}
    \cup {[NoLimits EXCEPT !.max_depth = depth, !.time_ms = MaxTimeMs],
          [NoLimits EXCEPT !.max_depth = depth, !.stop = TRUE]}

InitSearch ==
    /\ \E r \in SearchRoots :
        /\ pos = ffp_position_from_fen(r.fen).pos
        /\ fenIn = r.fen
        /\ limits \in SearchLimitsOf(r.depth)
    /\ fenOk = TRUE
    /\ lastOp = "from_fen"
    /\ undoStack = <<>>
    /\ snap = ffp_position_clear
    /\ fenOut = <<>>
    /\ phase = "idle"
    /\ ctx = [nodes |-> 0, aborted |-> FALSE, limits |-> NoLimits]
    /\ root = [moves |-> <<>>, depth |-> 0, i |-> 0, best_score |-> 0,
               best_move_depth |-> NoMove, found |-> FALSE, best_so_far |-> NoMove,
               u |-> NoUndo]
    /\ frames = <<>>
    /\ ret = 0
    /\ result = InitialResult
    /\ stopFlag = FALSE
    /\ elapsed_ms = 0
    /\ hist = [entry |-> ffp_position_clear, iters |-> <<>>, firedAt |-> 0]
    /\ CoordIdle

\* a fresh alphabeta call: its arguments, and its locals not yet set
Frame(depth, alpha, beta) ==
    [depth |-> depth, alpha |-> alpha, beta |-> beta, ml |-> <<>>, i |-> 0, u |-> NoUndo]

\* the innermost alphabeta call returns v
Return(v) ==
    /\ frames' = SubSeq(frames, 1, Len(frames) - 1)
    /\ ret' = v
    /\ phase' = "ret"

\* the root-move loop of the iteration has ended with the SearchContext cx: the
\* result is updated, and the next iteration starts or ffp_search returns
EndIteration(cx) ==
    LET res == IterationResult(result, root, cx)
        bsf == IterationBest(root, cx)
        last == cx.aborted \/ root.depth + 1 > cx.limits.max_depth
    IN  /\ ctx' = cx
        /\ result' = IF last THEN FinalResult(res, bsf, cx) ELSE res
        /\ root' = IF last
                   THEN [root EXCEPT !.best_so_far = bsf]
                   ELSE [root EXCEPT !.depth = @ + 1, !.i = 1, !.best_score = -30000,
                                     !.best_move_depth = root.moves[1], !.found = FALSE,
                                     !.best_so_far = bsf]
        /\ phase' = IF last THEN "done" ELSE "root"
        /\ hist' = [hist EXCEPT
                      !.iters = IF cx.aborted THEN @
                                ELSE Append(@, [best_move |-> root.best_move_depth,
                                                score |-> root.best_score]),
                      !.firedAt = IF cx.aborted /\ @ = 0 THEN root.depth ELSE @]

\* the call of ffp_search, up to the first iteration
SearchEnter ==
    /\ phase = "idle"
    /\ LET rootMoves == ffp_generate_legal(pos)
       IN  /\ ctx' = [nodes |-> 0, aborted |-> FALSE, limits |-> EffectiveLimits(limits)]
           /\ IF Len(rootMoves) = 0
              THEN /\ result' = [InitialResult EXCEPT !.score = RootNoMoveScore(pos)]
                   /\ phase' = "done"
                   /\ UNCHANGED root
              ELSE /\ result' = InitialResult
                   /\ phase' = "root"
                   /\ root' = [moves |-> rootMoves, depth |-> 1, i |-> 1,
                               best_score |-> -30000, best_move_depth |-> rootMoves[1],
                               found |-> FALSE, best_so_far |-> rootMoves[1], u |-> NoUndo]
    /\ elapsed_ms' = 0
    /\ hist' = [entry |-> pos, iters |-> <<>>, firedAt |-> 0]
    /\ UNCHANGED <<pos, frames, ret, stopFlag, limits>>
    /\ UNCHANGED apiVars
    /\ UNCHANGED coordVars

\* the head of the root-move loop: the loop ends, or breaks on abort, or makes the
\* next root move and calls alphabeta
RootStep ==
    /\ phase = "root"
    /\ IF root.i > Len(root.moves)
       THEN EndIteration(ctx) /\ UNCHANGED <<pos, frames>>
       ELSE IF search_should_abort(ctx, stopFlag, elapsed_ms)
            THEN EndIteration([ctx EXCEPT !.aborted = TRUE]) /\ UNCHANGED <<pos, frames>>
            ELSE LET m == root.moves[root.i]
                 IN  /\ pos' = ffp_make_move(pos, m)
                     /\ root' = [root EXCEPT !.u = UndoOf(pos, m)]
                     /\ frames' = <<Frame(root.depth - 1, -30000, 30000)>>
                     /\ phase' = "call"
                     /\ UNCHANGED <<ctx, result, hist>>
    /\ UNCHANGED <<ret, stopFlag, elapsed_ms, limits>>
    /\ UNCHANGED apiVars
    /\ UNCHANGED coordVars

\* the entry of alphabeta, up to its move loop
AlphabetaEnter ==
    /\ phase = "call"
    /\ LET f == frames[Len(frames)]
       IN  IF search_should_abort(ctx, stopFlag, elapsed_ms)
           THEN /\ ctx' = [ctx EXCEPT !.aborted = TRUE]
                /\ hist' = [hist EXCEPT !.firedAt = root.depth]
                /\ Return(0)
           ELSE /\ ctx' = [ctx EXCEPT !.nodes = @ + 1]
                /\ UNCHANGED hist
                /\ IF f.depth = 0
                   THEN Return(evaluate(pos))
                   ELSE LET ml == ffp_generate_legal(pos)
                        IN  IF Len(ml) = 0
                            THEN Return(NoMoveScore(pos, f.depth))
                            ELSE /\ frames' = [frames EXCEPT ![Len(frames)] =
                                                  [f EXCEPT !.ml = ml, !.i = 1]]
                                 /\ phase' = "loop"
                                 /\ UNCHANGED ret
    /\ UNCHANGED <<pos, root, result, stopFlag, elapsed_ms, limits>>
    /\ UNCHANGED apiVars
    /\ UNCHANGED coordVars

\* the head of alphabeta's move loop: the loop ends, or makes the next move and
\* calls alphabeta
AlphabetaLoop ==
    /\ phase = "loop"
    /\ LET f == frames[Len(frames)]
       IN  IF f.i > Len(f.ml)
           THEN Return(f.alpha) /\ UNCHANGED pos
           ELSE LET m == f.ml[f.i]
                IN  /\ pos' = ffp_make_move(pos, m)
                    /\ frames' = Append([frames EXCEPT ![Len(frames)].u = UndoOf(pos, m)],
                                        Frame(f.depth - 1, -f.beta, -f.alpha))
                    /\ phase' = "call"
                    /\ UNCHANGED ret
    /\ UNCHANGED <<ctx, root, result, stopFlag, elapsed_ms, limits, hist>>
    /\ UNCHANGED apiVars
    /\ UNCHANGED coordVars

\* an alphabeta call has returned into alphabeta's move loop
AlphabetaReturn ==
    /\ phase = "ret"
    /\ frames # <<>>
    /\ LET f == frames[Len(frames)]
           score == -ret
       IN  /\ pos' = ffp_unmake_move(pos, f.ml[f.i], f.u)
           /\ IF ctx.aborted
              THEN Return(0)
              ELSE IF score >= f.beta
                   THEN Return(f.beta)
                   ELSE /\ frames' = [frames EXCEPT ![Len(frames)] =
                                         [f EXCEPT !.alpha = IF score > @ THEN score ELSE @,
                                                   !.i = @ + 1]]
                        /\ phase' = "loop"
                        /\ UNCHANGED ret
    /\ UNCHANGED <<ctx, root, result, stopFlag, elapsed_ms, limits, hist>>
    /\ UNCHANGED apiVars
    /\ UNCHANGED coordVars

\* an alphabeta call has returned into the root-move loop of ffp_search
RootReturn ==
    /\ phase = "ret"
    /\ frames = <<>>
    /\ LET score == -ret
       IN  /\ pos' = ffp_unmake_move(pos, root.moves[root.i], root.u)
           /\ IF ctx.aborted
              THEN EndIteration(ctx)
              ELSE /\ root' = [RootUpdate(root, score) EXCEPT !.i = @ + 1]
                   /\ phase' = "root"
                   /\ UNCHANGED <<ctx, result, hist>>
    /\ UNCHANGED <<frames, ret, stopFlag, elapsed_ms, limits>>
    /\ UNCHANGED apiVars
    /\ UNCHANGED coordVars

\* the caller sets the stop flag it passed
SetStop ==
    /\ phase # "done"
    /\ limits.stop
    /\ ~stopFlag
    /\ stopFlag' = TRUE
    /\ UNCHANGED <<pos, phase, ctx, root, frames, ret, result, elapsed_ms, limits, hist>>
    /\ UNCHANGED apiVars
    /\ UNCHANGED coordVars

\* the caller clears it again
ClearStop ==
    /\ phase # "done"
    /\ stopFlag
    /\ stopFlag' = FALSE
    /\ UNCHANGED <<pos, phase, ctx, root, frames, ret, result, elapsed_ms, limits, hist>>
    /\ UNCHANGED apiVars
    /\ UNCHANGED coordVars

\* processor time passes while the search runs
Tick ==
    /\ phase \notin {"idle", "done"}
    /\ elapsed_ms < ctx.limits.time_ms
    /\ elapsed_ms' = elapsed_ms + 1
    /\ UNCHANGED <<pos, phase, ctx, root, frames, ret, result, stopFlag, limits, hist>>
    /\ UNCHANGED apiVars
    /\ UNCHANGED coordVars

NextSearch ==
    \/ SearchEnter \/ RootStep \/ AlphabetaEnter \/ AlphabetaLoop
    \/ AlphabetaReturn \/ RootReturn \/ SetStop \/ ClearStop \/ Tick

SpecSearch == InitSearch /\ [][NextSearch]_vars

\* the steps of ffp_search, which runs on until it returns; the caller's writes to
\* the stop flag and the passing of time are not among them
SearchProgram ==
    \/ SearchEnter \/ RootStep \/ AlphabetaEnter \/ AlphabetaLoop
    \/ AlphabetaReturn \/ RootReturn

\* the root positions of the searches followed to their return, each with the
\* deepest max_depth asked for, 0 standing for the default depth
LiveRoots ==
    {[fen |-> Chars("k7/8/1K6/8/8/8/8/7R w - - 0 1"), depth |-> StartDepth],
     [fen |-> Chars("8/8/8/8/8/8/1kP5/7K w - - 0 1"), depth |-> StartDepth],
     [fen |-> Chars("7k/5Q2/6K1/8/8/8/8/8 b - - 0 1"), depth |-> StartDepth],
     [fen |-> Chars("7k/5P2/6K1/8/8/8/8/8 w - - 0 1"), depth |-> 0]}

InitSearchLive ==
    /\ InitSearch
    /\ \E r \in LiveRoots : fenIn = r.fen /\ limits \in SearchLimitsOf(r.depth)

SpecSearchLive == InitSearchLive /\ [][NextSearch]_vars /\ WF_vars(SearchProgram)


(***************************************************************************)
(* perft as a state machine, on the call stack of SpecSearch: one step     *)
(* runs the code from the entry of a call, or from one make or unmake of a *)
(* move, to the next.                                                      *)
(***************************************************************************)
MaxPerft == 2

StartPerft == 3

\* the positions counted, each with the deepest depth asked for
PerftRoots ==
    {[fen |-> FFP_FEN_STARTPOS, depth |-> StartPerft],
     [fen |-> Chars("r3k2r/8/8/8/8/8/8/R3K2R w KQkq - 0 1"), depth |-> MaxPerft],
     [fen |-> Chars("8/P7/8/8/8/8/8/k6K w - - 0 1"), depth |-> MaxPerft],
     [fen |-> Chars("4k3/8/8/3p4/4P3/8/8/4K3 b - - 0 1"), depth |-> MaxPerft],
     [fen |-> Chars("k7/8/1K6/8/8/8/8/7R w - - 0 1"), depth |-> MaxPerft]}

InitPerft ==
    /\ \E r \in PerftRoots :
        /\ pos = ffp_position_from_fen(r.fen).pos
        /\ fenIn = r.fen
    /\ fenOk = TRUE
    /\ lastOp = "from_fen"
    /\ undoStack = <<>>
    /\ snap = ffp_position_clear
    /\ fenOut = <<>>
    /\ SearchIdle
    /\ CoordIdle

\* a fresh perft call: its argument, and its locals not yet set
PerftFrame(depth) == [depth |-> depth, ml |-> <<>>, i |-> 0, u |-> NoUndo, nodes |-> 0]

\* the innermost perft call returns v, into the loop of its caller or to the caller
\* of perft
PerftReturns(v) ==
    /\ frames' = SubSeq(frames, 1, Len(frames) - 1)
    /\ ret' = v
    /\ phase' = IF Len(frames) = 1 THEN "done" ELSE "ret"

\* perft is called on the Position with a depth
PerftEnter ==
    /\ phase = "idle"
    /\ \E r \in PerftRoots :
        /\ r.fen = fenIn
        /\ \E d \in 0..r.depth :
            /\ frames' = <<PerftFrame(d)>>
            /\ hist' = [entry |-> pos, depth |-> d]
    /\ phase' = "call"
    /\ UNCHANGED <<pos, ctx, root, ret, result, stopFlag, elapsed_ms, limits>>
    /\ UNCHANGED apiVars
    /\ UNCHANGED coordVars

\* the entry of perft, up to its move loop
PerftCall ==
    /\ phase = "call"
    /\ LET f == frames[Len(frames)]
       IN  IF f.depth = 0
           THEN PerftReturns(1)
           ELSE /\ frames' = [frames EXCEPT ![Len(frames)] =
                                 [f EXCEPT !.ml = ffp_generate_legal(pos), !.i = 1]]
                /\ phase' = "loop"
                /\ UNCHANGED ret
    /\ UNCHANGED <<pos, ctx, root, result, stopFlag, elapsed_ms, limits, hist>>
    /\ UNCHANGED apiVars
    /\ UNCHANGED coordVars

\* the head of perft's move loop: the loop ends, or makes the next move and calls
\* perft
PerftLoop ==
    /\ phase = "loop"
    /\ LET f == frames[Len(frames)]
       IN  IF f.i > Len(f.ml)
           THEN PerftReturns(f.nodes) /\ UNCHANGED pos
           ELSE LET m == f.ml[f.i]
                IN  /\ pos' = ffp_make_move(pos, m)
                    /\ frames' = Append([frames EXCEPT ![Len(frames)].u = UndoOf(pos, m)],
                                        PerftFrame(f.depth - 1))
                    /\ phase' = "call"
                    /\ UNCHANGED ret
    /\ UNCHANGED <<ctx, root, result, stopFlag, elapsed_ms, limits, hist>>
    /\ UNCHANGED apiVars
    /\ UNCHANGED coordVars

\* a perft call has returned into perft's move loop
PerftBack ==
    /\ phase = "ret"
    /\ LET f == frames[Len(frames)]
       IN  /\ pos' = ffp_unmake_move(pos, f.ml[f.i], f.u)
           /\ frames' = [frames EXCEPT ![Len(frames)] =
                            [f EXCEPT !.nodes = @ + ret, !.i = @ + 1]]
    /\ phase' = "loop"
    /\ UNCHANGED <<ctx, root, ret, result, stopFlag, elapsed_ms, limits, hist>>
    /\ UNCHANGED apiVars
    /\ UNCHANGED coordVars

NextPerft == PerftEnter \/ PerftCall \/ PerftLoop \/ PerftBack

SpecPerft == InitPerft /\ [][NextPerft]_vars


(***************************************************************************)
(* uci_loop's go command as a state machine: the loop reads a go line,     *)
(* calls ffp_search, whose steps are those of SpecSearch, and writes the   *)
(* bestmove line before it reads again.                                    *)
(***************************************************************************)
MaxGo == 2

\* strstr(s, sub) as an index into s, 0 when sub does not occur
StrStr(s, sub) ==
    LET at == {i \in 1..(Len(s) - Len(sub) + 1) : SubSeq(s, i, i + Len(sub) - 1) = sub}
    IN  IF at = {} THEN 0 ELSE CHOOSE i \in at : \A j \in at : i <= j

\* strtoull(s + i - 1, NULL, 10): a negated value wraps around 2^64
strtoull(s, i) ==
    LET v == atoi(s, i)
    IN  IF v < 0 THEN 2^64 + v ELSE v

\* the SearchLimits the go handler fills from its line
GoLimits(line) ==
    LET dpos == StrStr(line, Chars("depth"))
        tpos == StrStr(line, Chars("movetime"))
        npos == StrStr(line, Chars("nodes"))
        depth == atoi(line, dpos + 5)
        ms == atoi(line, tpos + 8)
    IN  [max_depth |-> IF dpos # 0 /\ depth > 0 THEN depth ELSE 0,
         time_ms |-> IF tpos # 0 /\ ms > 0 THEN ms ELSE 0,
         node_limit |-> IF npos # 0 THEN strtoull(line, npos + 5) ELSE 0,
         stop |-> FALSE]

\* the go lines the loop reads
GoLines ==
    {Chars("go"), Chars("go depth 1"), Chars("go depth 2"), Chars("go depth 0"),
     Chars("go nodes 3"), Chars("go depth 2 movetime 1"), Chars("go depth 2 nodes 0")}

\* the positions the loop holds when it reads them
GoRoots ==
    {Chars("k7/2p5/K7/3P4/8/8/8/8 w - - 0 1"),
     Chars("4k3/8/8/3p4/4P3/8/8/4K3 b - - 0 1"),
     Chars("8/P7/8/8/8/8/8/k6K w - - 0 1"),
     Chars("7k/5Q2/6K1/8/8/8/8/8 b - - 0 1"),
     Chars("7k/6Q1/6K1/8/8/8/8/8 b - - 0 1")}

\* the locals of the go handler and of ffp_search outside a go command
GoLocalsIdle(c, r, f, v, res, e, lim, h) ==
    /\ c = [nodes |-> 0, aborted |-> FALSE, limits |-> NoLimits]
    /\ r = [moves |-> <<>>, depth |-> 0, i |-> 0, best_score |-> 0,
            best_move_depth |-> NoMove, found |-> FALSE, best_so_far |-> NoMove,
            u |-> NoUndo]
    /\ f = <<>>
    /\ v = 0
    /\ res = InitialResult
    /\ e = 0
    /\ lim = NoLimits
    /\ h = [entry |-> ffp_position_clear, iters |-> <<>>, firedAt |-> 0]

InitGo ==
    /\ \E f \in GoRoots :
        /\ pos = ffp_position_from_fen(f).pos
        /\ fenIn = f
    /\ fenOk = TRUE
    /\ lastOp = "from_fen"
    /\ undoStack = <<>>
    /\ snap = ffp_position_clear
    /\ fenOut = <<>>
    /\ phase = "read"
    /\ GoLocalsIdle(ctx, root, frames, ret, result, elapsed_ms, limits, hist)
    /\ stopFlag = FALSE
    /\ CoordIdle

\* the loop reads a go line and the handler fills the limits, up to the call of
\* ffp_search
UciGo ==
    /\ phase = "read"
    /\ io.gos < MaxGo
    /\ \E line \in GoLines : limits' = GoLimits(line)
    /\ io' = [io EXCEPT !.gos = @ + 1]
    /\ phase' = "idle"
    /\ UNCHANGED <<pos, ctx, root, frames, ret, result, stopFlag, elapsed_ms, hist>>
    /\ UNCHANGED <<uci, parsed, rendered, input>>
    /\ UNCHANGED apiVars

\* a faulty variant of the action below, which writes the text of the move "none"
\* as ffp_move_to_string left it
UciBestmove_Bare ==
    /\ phase = "done"
    /\ io' = [io EXCEPT !.lines =
                  Append(@, [text |-> Chars("bestmove ") \o ffp_move_to_string(result.best_move),
                             asked |-> hist.entry])]
    /\ phase' = "read"
    /\ GoLocalsIdle(ctx', root', frames', ret', result', elapsed_ms', limits', hist')
    /\ UNCHANGED <<pos, stopFlag>>
    /\ UNCHANGED <<uci, parsed, rendered, input>>
    /\ UNCHANGED apiVars

\* ffp_search has returned: the handler writes the bestmove line and the loop reads
\* again
UciBestmove ==
    /\ phase = "done"
    /\ LET buf == ffp_move_to_string(result.best_move)
       IN  io' = [io EXCEPT !.lines =
                     Append(@, [text |-> Chars("bestmove ")
                                         \o (IF buf = <<>> THEN Chars("0000") ELSE buf),
                                asked |-> hist.entry])]
    /\ phase' = "read"
    /\ GoLocalsIdle(ctx', root', frames', ret', result', elapsed_ms', limits', hist')
    /\ UNCHANGED <<pos, stopFlag>>
    /\ UNCHANGED <<uci, parsed, rendered, input>>
    /\ UNCHANGED apiVars

NextGo ==
    \/ UciGo \/ SearchEnter \/ RootStep \/ AlphabetaEnter \/ AlphabetaLoop
    \/ AlphabetaReturn \/ RootReturn \/ Tick \/ UciBestmove

SpecGo == InitGo /\ [][NextGo]_vars

\* the steps of the program, which runs on while the handler has not returned; a
\* further go line and the passing of time are not among them
GoProgram ==
    \/ SearchEnter \/ RootStep \/ AlphabetaEnter \/ AlphabetaLoop
    \/ AlphabetaReturn \/ RootReturn \/ UciBestmove

SpecGoLive == InitGo /\ [][NextGo]_vars /\ WF_vars(GoProgram)


(***************************************************************************)
(* uci_loop's position command and the coordinate-move functions as a      *)
(* state machine: position commands drawn from a bounded set, each handled *)
(* whole, and calls of ffp_move_from_string and ffp_move_to_string on the  *)
(* Position the command left.                                              *)
(***************************************************************************)
MaxUciMoves == 2

\* the move texts the short commands are made of
UciTokens ==
    {Chars("e2e4"), Chars("e7e5"), Chars("g1f3"), Chars("g8f6"), Chars("e7e5x"), Chars("e7e")}

RECURSIVE TokenSeqs(_)
TokenSeqs(n) ==
    IF n = 0 THEN {<<>>}
    ELSE TokenSeqs(n - 1) \cup {Append(ms, t) : ms \in TokenSeqs(n - 1), t \in UciTokens}

Prefixes(line) == {SubSeq(line, 1, k) : k \in 0..Len(line)}

\* White castles king-side on the seventh move
CastleLine ==
    <<Chars("e2e4"), Chars("e7e5"), Chars("g1f3"), Chars("b8c6"), Chars("f1c4"),
      Chars("g8f6"), Chars("e1g1")>>

\* the same line with every rank digit r written 9 - r
MirrorCastleLine ==
    <<Chars("e7e5"), Chars("e2e4"), Chars("g8f6"), Chars("b1c3"), Chars("f8c5"),
      Chars("g1f3"), Chars("e8g8")>>

\* positions with a pawn one step from promotion, each text with both counters
UciFens ==
    {Chars("8/P7/8/8/8/8/8/k6K w - - 0 1"), Chars("7k/8/8/8/8/8/p7/7K b - - 0 1")}

PromoLines ==
    {<<>>, <<Chars("a7a8q")>>, <<Chars("a2a1q")>>, <<Chars("a7a8")>>, <<Chars("a2a1")>>,
     <<Chars("a7a8n"), Chars("h8g8")>>, <<Chars("a2a1n"), Chars("h1g1")>>}

\* the position commands handled: position startpos moves ..., position fen ... moves ...
UciCommands ==
    {[start |-> "startpos", fen |-> <<>>, moves |-> ms] :
        ms \in TokenSeqs(MaxUciMoves) \cup Prefixes(CastleLine) \cup Prefixes(MirrorCastleLine)}
    \cup {[start |-> "fen", fen |-> f, moves |-> ms] : f \in UciFens, ms \in PromoLines}

\* the texts given to ffp_move_from_string
MoveTexts ==
    UciTokens
    \cup {Chars("a7a8q"), Chars("a7a8Q"), Chars("a7a8r"), Chars("a7a8k"), Chars("a7a8"),
          Chars("a2a1q"), Chars("a2a1Q"), Chars("a2a1b"), Chars("a2a1k"), Chars("a2a1"),
          Chars("e7e5q"), Chars("e2e4q"), Chars("i7e5"), Chars("e9e5"), Chars("e0e4"),
          Chars("e2e"), Chars("h1g1"), Chars("h8g8"), Chars("")}

\* uci_loop starts from the start position (line 833)
InitUci ==
    /\ pos = ffp_position_set_start
    /\ undoStack = <<>>
    /\ snap = ffp_position_clear
    /\ lastOp = "set_start"
    /\ fenIn = FFP_FEN_STARTPOS
    /\ fenOk = TRUE
    /\ fenOut = <<>>
    /\ SearchIdle
    /\ CoordIdle

\* the handler of the position command that follows the start of uci_loop (lines
\* 839-875); what a command with startpos or fen leaves does not depend on the
\* commands before it
UciPosition ==
    /\ lastOp = "set_start"
    /\ \E c \in UciCommands :
           LET r == UciMoves(UciStart(pos, c), c.moves, 0)
           IN  /\ pos' = r.pos
               /\ uci' = [cmd |-> c, accepted |-> r.accepted]
               /\ fenIn' = IF c.start = "fen" THEN UciFenText(c.fen, 1, 0) ELSE FFP_FEN_STARTPOS
               /\ fenOk' = IF c.start = "fen"
                           THEN ffp_position_from_fen(UciFenText(c.fen, 1, 0)).ok
                           ELSE TRUE
    /\ lastOp' = "position"
    /\ undoStack' = <<>>
    /\ UNCHANGED <<snap, fenOut, parsed, rendered, io, input>>
    /\ UNCHANGED searchVars

\* a call of ffp_move_from_string on the Position as the start or a position command
\* left it, which the call only reads
MoveFromString ==
    /\ lastOp \in {"set_start", "position"}
    /\ HasKings(pos)
    /\ \E t \in MoveTexts :
           LET r == ffp_move_from_string(pos, t)
           IN  parsed' = [text |-> t, ok |-> r.ok, mv |-> r.mv]
    /\ lastOp' = "move_from_string"
    /\ UNCHANGED <<pos, undoStack, snap, fenIn, fenOk, fenOut, uci, rendered, io, input>>
    /\ UNCHANGED searchVars

\* a call of ffp_move_to_string on a generated legal move of that Position or on the
\* move "none"
MoveToString ==
    /\ lastOp \in {"set_start", "position"}
    /\ HasKings(pos)
    /\ LET legal == ffp_generate_legal(pos)
       IN  \E m \in {NoMove} \cup {legal[i] : i \in 1..Len(legal)} :
               rendered' = [mv |-> m, str |-> ffp_move_to_string(m)]
    /\ lastOp' = "move_to_string"
    /\ UNCHANGED <<pos, undoStack, snap, fenIn, fenOk, fenOut, uci, parsed, io, input>>
    /\ UNCHANGED searchVars

NextUci == UciPosition \/ MoveFromString \/ MoveToString

SpecUci == InitUci /\ [][NextUci]_vars


(***************************************************************************)
(* uci_loop as a state machine: one step reads a line and runs the handler *)
(* the chain of strncmp tests selects for it.  The lines are drawn from a  *)
(* bounded set; the go, d and perft handlers are not among those run here. *)
(***************************************************************************)
MaxLines == 3

\* strncmp(s + i - 1, w, strlen(w)) == 0
StartsAt(s, i, w) == i + Len(w) - 1 <= Len(s) /\ SubSeq(s, i, i + Len(w) - 1) = w

\* the first index from i on at which s has one of the characters stops, or ends
RECURSIVE ScanTo(_, _, _)
ScanTo(s, i, stops) ==
    IF Ch(s, i) = NUL \/ Ch(s, i) \in stops THEN i ELSE ScanTo(s, i + 1, stops)

\* lines 857-873: the move texts of the line s from index i on, each up to the next
\* blank or end of line, the scan going on at the next blank
RECURSIVE MoveTokens(_, _)
MoveTokens(s, i) ==
    LET j == SkipBlanks(s, i)
    IN  IF Ch(s, j) = NUL \/ Ch(s, j) = "\n" THEN <<>>
        ELSE <<SubSeq(s, j, ScanTo(s, j, {" ", "\n"}) - 1)>>
             \o MoveTokens(s, SkipToken(s, j))

\* lines 835-903: the handler the chain of tests selects for the line
UciHandler(line) ==
    IF StartsAt(line, 1, Chars("uci")) THEN "uci"
    ELSE IF StartsAt(line, 1, Chars("isready")) THEN "isready"
    ELSE IF StartsAt(line, 1, Chars("ucinewgame")) THEN "ucinewgame"
    ELSE IF StartsAt(line, 1, Chars("position")) THEN "position"
    ELSE IF StartsAt(line, 1, Chars("go")) THEN "go"
    ELSE IF StartsAt(line, 1, Chars("d")) THEN "d"
    ELSE IF StartsAt(line, 1, Chars("perft")) THEN "perft"
    ELSE IF StartsAt(line, 1, Chars("quit")) THEN "quit"
    ELSE "none"

\* lines 839-875: the position handler on the line, from the Position p: the command
\* as it reads it, and the Position and the count of accepted moves it leaves
UciPositionLine(p, line) ==
    LET i == SkipBlanks(line, 9)
        isStart == StartsAt(line, i, Chars("startpos"))
        isFen == ~isStart /\ StartsAt(line, i, Chars("fen"))
        j == SkipBlanks(line, i + 3)
        fen == IF isFen THEN UciFenText(line, j, 0) ELSE <<>>
        fifth == Cardinality({k \in 1..Len(fen) : fen[k] = " "}) = 5
        ptr == IF isStart THEN i + 8
               ELSE IF isFen THEN (IF fifth THEN j + Len(fen) - 1 ELSE j + Len(fen))
               ELSE i
        rest == SubSeq(line, ptr, Len(line))
        mstr == StrStr(rest, Chars("moves"))
        toks == IF mstr = 0 THEN <<>> ELSE MoveTokens(rest, mstr + 5)
        c == [start |-> IF isStart THEN "startpos" ELSE IF isFen THEN "fen" ELSE "",
              fen |-> fen, moves |-> toks]
    IN  [cmd |-> c, r |-> UciMoves(UciStart(p, c), toks, 0)]

\* the lines written by printf("id name ffp\nid author you\nuciok\n") with the
\* Position p held
IdLines(p) ==
    <<[text |-> Chars("id name ffp"), asked |-> p],
      [text |-> Chars("id author you"), asked |-> p],
      [text |-> Chars("uciok"), asked |-> p]>>

\* the lines the loop reads, as fgets returns them
LoopLines ==
    {Chars("uci\n"), Chars("isready\n"), Chars("ucinewgame\n"), Chars("stop\n"),
     Chars("quit\n"), Chars("position startpos\n"),
     Chars("position startpos moves e7e5\n"),
     Chars("position moves e2e4 g1f3  g8f6\n"),
     Chars("position fen 8/P7/8/8/8/8/8/k6K w - - 0 1 moves a2a1q\n")}

\* uci_loop up to its first fgets (lines 832-834)
InitLoop ==
    /\ pos = ffp_position_set_start
    /\ undoStack = <<>>
    /\ snap = ffp_position_clear
    /\ lastOp = "set_start"
    /\ fenIn = FFP_FEN_STARTPOS
    /\ fenOk = TRUE
    /\ fenOut = <<>>
    /\ SearchIdle
    /\ uci = [cmd |-> [start |-> "", fen |-> <<>>, moves |-> <<>>], accepted |-> 0]
    /\ parsed = [text |-> <<>>, ok |-> FALSE, mv |-> NoMove]
    /\ rendered = [mv |-> NoMove, str |-> <<>>]
    /\ io = [gos |-> 0, lines |-> IdLines(ffp_position_set_start)]
    /\ input = <<>>

\* one turn of the loop (lines 835-904): fgets reads a line and the first handler
\* whose test matches runs to its end
UciLine ==
    /\ lastOp # "quit"
    /\ Len(input) < MaxLines
    /\ \E line \in LoopLines :
           LET h == UciHandler(line)
               done == UciPositionLine(pos, line)
           IN  /\ h \notin {"go", "d", "perft"}
               /\ input' = Append(input, line)
               /\ lastOp' = h
               /\ pos' = IF h = "ucinewgame" THEN ffp_position_set_start
                         ELSE IF h = "position" THEN done.r.pos
                         ELSE pos
               /\ io' = IF h = "uci" THEN [io EXCEPT !.lines = @ \o IdLines(pos)]
                        ELSE IF h = "isready"
                        THEN [io EXCEPT !.lines = Append(@, [text |-> Chars("readyok"),
                                                             asked |-> pos])]
                        ELSE io
               /\ uci' = IF h = "position"
                         THEN [cmd |-> done.cmd, accepted |-> done.r.accepted]
                         ELSE uci
    /\ UNCHANGED <<undoStack, snap, fenIn, fenOk, fenOut, parsed, rendered>>
    /\ UNCHANGED searchVars

NextLoop == UciLine

SpecLoop == InitLoop /\ [][NextLoop]_vars


(***************************************************************************)
(* Properties                                                              *)
(***************************************************************************)

\* ---- reference definitions the properties are stated with ----

FileOf(s) == s % 8

RowOf(s) == s \div 8

Abs(x) == IF x < 0 THEN -x ELSE x

Sign(x) == IF x < 0 THEN -1 ELSE IF x > 0 THEN 1 ELSE 0

\* the squares strictly between a and b, which share a row, a file or a diagonal
StrictlyBetween(a, b) ==
    LET dr == Sign(RowOf(b) - RowOf(a))
        df == Sign(FileOf(b) - FileOf(a))
        n  == IF Abs(RowOf(b) - RowOf(a)) > Abs(FileOf(b) - FileOf(a))
              THEN Abs(RowOf(b) - RowOf(a)) ELSE Abs(FileOf(b) - FileOf(a))
    IN  {a + k * (8 * dr + df) : k \in 1..(n - 1)}

OnLine(a, b) == a # b /\ (RowOf(a) = RowOf(b) \/ FileOf(a) = FileOf(b))

OnDiagonal(a, b) == a # b /\ Abs(RowOf(a) - RowOf(b)) = Abs(FileOf(a) - FileOf(b))

\* square sq is attacked by a piece of side by, by the geometry of the board
AttackedOnBoard(p, sq, by) ==
    LET off == IF by = WHITE THEN 0 ELSE 6
        clear(s) == StrictlyBetween(s, sq) \cap p.occ_all = {}
    IN  \/ \E s \in p.bb[WP + off] :
              /\ Abs(FileOf(s) - FileOf(sq)) = 1
              /\ RowOf(sq) = (IF by = WHITE THEN RowOf(s) - 1 ELSE RowOf(s) + 1)
        \/ \E s \in p.bb[WN + off] :
              {Abs(FileOf(s) - FileOf(sq)), Abs(RowOf(s) - RowOf(sq))} = {1, 2}
        \/ \E s \in p.bb[WK + off] :
              /\ s # sq
              /\ Abs(FileOf(s) - FileOf(sq)) <= 1
              /\ Abs(RowOf(s) - RowOf(sq)) <= 1
        \/ \E s \in p.bb[WB + off] \cup p.bb[WQ + off] : OnDiagonal(s, sq) /\ clear(s)
        \/ \E s \in p.bb[WR + off] \cup p.bb[WQ + off] : OnLine(s, sq) /\ clear(s)

\* no king of the side that is not to move in p stands attacked
MoverNotInCheck(p) ==
    LET mover == OtherSide(p.side)
        king == IF mover = WHITE THEN WK ELSE BK
    IN  \A k \in p.bb[king] : ~AttackedOnBoard(p, k, p.side)

Max(S) == CHOOSE x \in S : \A y \in S : y <= x

\* the plain negamax value of p over the legal-move tree cut at r plies
RECURSIVE Negamax(_, _)
Negamax(p, r) ==
    IF r = 0 THEN evaluate(p)
    ELSE LET ml == ffp_generate_legal(p)
         IN  IF Len(ml) = 0
             THEN (IF InCheck(p) THEN -20000 + (5 - r) ELSE 0)
             ELSE Max({-Negamax(ffp_make_move(p, ml[i]), r - 1) : i \in 1..Len(ml)})

\* the pieces of text between the occurrences of the character c in s
RECURSIVE SplitOn(_, _)
SplitOn(s, c) ==
    IF \A i \in 1..Len(s) : s[i] # c
    THEN <<s>>
    ELSE LET k == CHOOSE i \in 1..Len(s) : s[i] = c /\ \A j \in 1..(i - 1) : s[j] # c
         IN  <<SubSeq(s, 1, k - 1)>> \o SplitOn(SubSeq(s, k + 1, Len(s)), c)

\* the number of squares a rank of a FEN placement describes, -1 with an unknown character
RECURSIVE RankSquares(_)
RankSquares(t) ==
    IF t = <<>> THEN 0
    ELSE LET rest == RankSquares(Tail(t))
             here == IF IndexIn(PIECE_CHARS, Head(t)) >= 0 THEN 1
                     ELSE IF IndexIn(DigitChars, Head(t)) >= 1 THEN IndexIn(DigitChars, Head(t))
                     ELSE -1
         IN  IF rest < 0 \/ here < 0 THEN -1 ELSE here + rest

\* a FEN text with one of the defects the loader has to reject: a missing side,
\* castling or en-passant field, a placement without exactly 8 ranks, a rank that
\* names an unknown piece or does not describe 8 squares, a castling field with a
\* character outside KQkq, an en-passant square on a rank other than 3 or 6
FenDefect(fen) ==
    LET fields == SplitOn(fen, " ")
        ranks == SplitOn(fields[1], "/")
        ca == fields[3]
        ep == fields[4]
    IN  \/ Len(fields) < 4
        \/ \E i \in 1..Len(fields) : i <= 4 /\ fields[i] = <<>>
        \/ Len(ranks) # 8
        \/ \E i \in 1..Len(ranks) : RankSquares(ranks[i]) # 8
        \/ ca # <<"-">> /\ \E i \in 1..Len(ca) : ca[i] \notin {"K", "Q", "k", "q"}
        \/ /\ Len(ep) = 2
           /\ IndexIn(FileChars, ep[1]) >= 0
           /\ IndexIn(DigitChars, ep[2]) >= 1
           /\ ep[2] \notin {"3", "6"}

NumSpaces(s) == Cardinality({i \in 1..Len(s) : s[i] = " "})

\* the square a file letter and a rank digit name: a8 = 0, h1 = 63
SquareNamed(f, r) == (8 - IndexIn(DigitChars, r)) * 8 + IndexIn(FileChars, f)

\* the castling rights of the bit-set c
Rights(c) == {b \in {1, 2, 4, 8} : HasFlag(c, b)}

\* ---- the position API (Spec) ----

\* C1: ffp_make_move of a generated legal move followed by ffp_unmake_move with its
\* Undo leaves the Position identical to its value before the make, in the piece-sets,
\* the occupancies and every scalar field.
C1_UnmakeRestoresPosition == lastOp = "unmake" => pos = snap

\* C3: ffp_generate_legal(p) is exactly the subsequence of ffp_generate_pseudo_legal(p)
\* whose moves, once made, leave the mover's king un-attacked by the side then to
\* move; and in every Position reached by making a generated legal move the side not
\* to move is not in check.
C3_LegalIsFilteredPseudoLegal ==
    (fenOk /\ HasKings(pos)) =>
        /\ ffp_generate_legal(pos)
             = SelectSeq(ffp_generate_pseudo_legal(pos),
                         LAMBDA m : MoverNotInCheck(ffp_make_move(pos, m)))
        /\ lastOp = "make" => MoverNotInCheck(pos)

\* C3's case: a legal move has been made, and in the Position reached some
\* pseudo-legal move is not legal
C3_Witness ==
    /\ fenOk
    /\ HasKings(pos)
    /\ lastOp = "make"
    /\ Len(ffp_generate_legal(pos)) < Len(ffp_generate_pseudo_legal(pos))
    /\ Len(ffp_generate_legal(pos)) > 0

\* C8: after every public operation that writes a Position, occ_white and occ_black
\* are the unions of the six white and the six black piece-sets, occ_all is their
\* union, occ_white and occ_black are disjoint, and the twelve piece-sets are
\* pairwise disjoint.
C8_OccupancyCoherent ==
    /\ pos.occ_white = UNION {pos.bb[i] : i \in WP..WK}
    /\ pos.occ_black = UNION {pos.bb[i] : i \in BP..BK}
    /\ pos.occ_all = pos.occ_white \cup pos.occ_black
    /\ pos.occ_white \cap pos.occ_black = {}
    /\ \A i, j \in 0..(PIECE_N - 1) : i # j => pos.bb[i] \cap pos.bb[j] = {}

\* C11: in a Position loaded by ffp_position_from_fen whose en-passant field names the
\* square X, for every pawn of the side to move that stands diagonally behind X,
\* ffp_generate_legal has a move from that pawn's square onto X flagged
\* ENPASSANT|CAPTURE; ffp_make_move of it removes the opposing pawn one rank behind X,
\* and ffp_unmake_move puts that pawn back and restores the en-passant target X.
C11_EnPassantFromFen ==
    (lastOp = "from_fen" /\ fenOk /\ HasKings(pos)) =>
        LET ep == SplitOn(fenIn, " ")[4]
            X == SquareNamed(ep[1], ep[2])
            behind == IF pos.side = WHITE THEN X + 8 ELSE X - 8
            pawn == IF pos.side = WHITE THEN WP ELSE BP
            victim == IF pos.side = WHITE THEN BP ELSE WP
            ml == ffp_generate_legal(pos)
        IN  Len(ep) = 2 =>
                \A s \in pos.bb[pawn] :
                    (RowOf(s) = RowOf(behind) /\ Abs(FileOf(s) - FileOf(X)) = 1) =>
                        \E i \in 1..Len(ml) :
                            /\ ml[i].from = s
                            /\ ml[i].to = X
                            /\ ml[i].flags = MF_ENPASSANT + MF_CAPTURE
                            /\ behind \in pos.bb[victim]
                            /\ behind \notin ffp_make_move(pos, ml[i]).bb[victim]
                            /\ LET back == ffp_unmake_move(ffp_make_move(pos, ml[i]), ml[i],
                                                           UndoOf(pos, ml[i]))
                               IN  behind \in back.bb[victim] /\ back.ep_square = X

\* every castling right of p has its king and its rook on their origin squares
CastlingCoherent(p) ==
    /\ HasFlag(p.castling, 1) => (60 \in p.bb[WK] /\ 63 \in p.bb[WR])
    /\ HasFlag(p.castling, 2) => (60 \in p.bb[WK] /\ 56 \in p.bb[WR])
    /\ HasFlag(p.castling, 4) => (4 \in p.bb[BK] /\ 7 \in p.bb[BR])
    /\ HasFlag(p.castling, 8) => (4 \in p.bb[BK] /\ 0 \in p.bb[BR])

\* the rights the move m takes away: both of a king that moves, the one of a rook
\* that leaves its origin square or is captured on it
RightsLost(m) ==
    (IF m.piece = WK THEN {1, 2} ELSE {})
    \cup (IF m.piece = BK THEN {4, 8} ELSE {})
    \cup (IF (m.piece = WR /\ m.from = 63) \/ (m.captured = WR /\ m.to = 63) THEN {1} ELSE {})
    \cup (IF (m.piece = WR /\ m.from = 56) \/ (m.captured = WR /\ m.to = 56) THEN {2} ELSE {})
    \cup (IF (m.piece = BR /\ m.from = 7) \/ (m.captured = BR /\ m.to = 7) THEN {4} ELSE {})
    \cup (IF (m.piece = BR /\ m.from = 0) \/ (m.captured = BR /\ m.to = 0) THEN {8} ELSE {})

\* C15: in every Position reached by ffp_position_set_start or an accepted
\* ffp_position_from_fen and then ffp_make_move of generated legal moves, a set
\* castling right has the king of its colour on 60 (White) or 4 (Black) and its rook
\* on 63, 56, 7 or 0; and ffp_make_move takes away exactly the rights of a king that
\* moved and of a rook that left, or was captured on, its origin square.
C15_CastlingRightsCoherent ==
    /\ (fenOk /\ lastOp \in {"set_start", "from_fen", "make"}) => CastlingCoherent(pos)
    /\ lastOp = "make" =>
           LET top == undoStack[Len(undoStack)]
           IN  Rights(pos.castling) = Rights(top.before.castling) \ RightsLost(top.m)

\* C16: in every Position reached by ffp_position_set_start or an accepted
\* ffp_position_from_fen and then ffp_make_move of generated legal moves, the
\* en-passant target, when set, is one of the squares 16..23 (rank 6) with White to
\* move and one of the squares 40..47 (rank 3) with Black to move.
C16_EnPassantRank ==
    (fenOk /\ lastOp \in {"set_start", "from_fen", "make"} /\ pos.ep_square # -1) =>
        IF pos.side = WHITE THEN pos.ep_square \in 16..23 ELSE pos.ep_square \in 40..47

\* the pawn steps of the side to move in p that land on its last rank: the push
\* onto an empty square and the captures of an opposing piece one file aside
PromotionSteps(p) ==
    LET pawn == IF p.side = WHITE THEN WP ELSE BP
        dir == IF p.side = WHITE THEN -8 ELSE 8
        last == IF p.side = WHITE THEN 0 ELSE 7
    IN  {st \in [from : p.bb[pawn], to : 0..63, capture : BOOLEAN] :
            /\ RowOf(st.to) = last
            /\ RowOf(st.from + dir) = last
            /\ IF st.capture
               THEN Abs(FileOf(st.to) - FileOf(st.from)) = 1 /\ st.to \in Opp(p)
               ELSE st.to = st.from + dir /\ st.to \notin p.occ_all}

\* the moves of the list ml that go from one square to another
FromTo(ml, from, to) == SelectSeq(ml, LAMBDA m : m.from = from /\ m.to = to)

\* the list ml holds the four promotions of the step st by the side to move in p
\* and nothing else
FourPromotions(p, ml, st) ==
    LET off == IF p.side = WHITE THEN 0 ELSE 6
    IN  /\ Len(ml) = 4
        /\ {ml[i].promo : i \in 1..4} = {WQ + off, WR + off, WB + off, WN + off}
        /\ \A i \in 1..4 :
               ml[i].flags = (IF st.capture THEN MF_PROMO + MF_CAPTURE ELSE MF_PROMO)

\* C17: for every pawn push or capture that lands on the last rank the generators
\* emit exactly four moves with that from/to pair, one for each of the queen, rook,
\* bishop and knight of the mover's colour, flagged PROMO (and CAPTURE for a
\* capture), and no move without promotion; ffp_generate_legal keeps all four or
\* none.  From "8/P7/8/8/8/8/8/k6K w - - 0 1" ffp_generate_legal has exactly the four
\* moves from a7 to a8, and otherwise king moves only.
C17_PromotionsFourfold ==
    (fenOk /\ HasKings(pos)) =>
        /\ \A st \in PromotionSteps(pos) :
               /\ FourPromotions(pos, FromTo(ffp_generate_pseudo_legal(pos), st.from, st.to), st)
               /\ LET kept == FromTo(ffp_generate_legal(pos), st.from, st.to)
                  IN  kept = <<>> \/ FourPromotions(pos, kept, st)
        /\ (lastOp = "from_fen" /\ fenIn = Chars("8/P7/8/8/8/8/8/k6K w - - 0 1")) =>
               LET ml == ffp_generate_legal(pos)
               IN  /\ FourPromotions(pos, FromTo(ml, 8, 0), [from |-> 8, to |-> 0, capture |-> FALSE])
                   /\ \A i \in 1..Len(ml) :
                          (ml[i].from = 8 /\ ml[i].to = 0) \/ ml[i].piece = WK

\* moves a caller may hand to ffp_make_move, generated or not: kings, rooks and a
\* pawn between the corners, the king squares and two other squares
GivenMoves ==
    {m \in [from : {0, 4, 7, 12, 56, 60, 63}, to : {0, 4, 7, 28, 56, 60, 63},
            piece : {WP, WR, WK, BR, BK}, promo : {-1}, captured : {-1, WR, BR},
            flags : {MF_QUIET, MF_CAPTURE, MF_CASTLE}] :
        /\ m.from # m.to
        /\ HasFlag(m.flags, MF_CAPTURE) <=> m.captured # -1}

\* C20: for every Position and every move given to ffp_make_move, the castling rights
\* after the call are a subset of the rights before it: no right is ever set.
C20_CastlingRightsMonotone ==
    /\ lastOp = "make" =>
           Rights(pos.castling) \subseteq Rights(undoStack[Len(undoStack)].before.castling)
    /\ Len(undoStack) <= 1 =>
           \A m \in GivenMoves :
               Rights(ffp_make_move(pos, m).castling) \subseteq Rights(pos.castling)

\* C20's case: a legal move has been made that took away some of the rights the
\* Position had and left others
C20_Witness ==
    /\ lastOp = "make"
    /\ Rights(pos.castling) # {}
    /\ Rights(pos.castling) # Rights(undoStack[Len(undoStack)].before.castling)

\* the number of squares in each of the twelve piece-sets of p
PieceCounts(p) == [i \in 0..(PIECE_N - 1) |-> Cardinality(p.bb[i])]

\* the move m neither captures, en passant included, nor promotes
Conserving(m) ==
    /\ ~HasFlag(m.flags, MF_CAPTURE)
    /\ ~HasFlag(m.flags, MF_ENPASSANT)
    /\ ~HasFlag(m.flags, MF_PROMO)

\* C21: in every Position reached by ffp_position_set_start or an accepted
\* ffp_position_from_fen and legal moves, ffp_make_move of a generated legal move that
\* neither captures (en passant included) nor promotes leaves the number of squares
\* in each of the twelve piece-sets unchanged.
C21_PiecesConserved ==
    /\ (lastOp = "make" /\ Conserving(undoStack[Len(undoStack)].m)) =>
           PieceCounts(pos) = PieceCounts(undoStack[Len(undoStack)].before)
    /\ (fenOk /\ HasKings(pos) /\ lastOp \in {"set_start", "from_fen"}) =>
           LET ml == ffp_generate_legal(pos)
           IN  \A i \in 1..Len(ml) :
                   Conserving(ml[i]) => PieceCounts(ffp_make_move(pos, ml[i])) = PieceCounts(pos)

\* C22: in every Position reached by ffp_position_set_start or an accepted
\* ffp_position_from_fen and then ffp_make_move of generated legal moves, the white
\* king set and the black king set hold exactly one square each, and no generated
\* legal move captures a king.
C22_OneKingEach ==
    (fenOk /\ lastOp \in {"set_start", "from_fen", "make"}) =>
        /\ Cardinality(pos.bb[WK]) = 1
        /\ Cardinality(pos.bb[BK]) = 1
        /\ LET ml == ffp_generate_legal(pos)
           IN  \A i \in 1..Len(ml) : ml[i].captured \notin {WK, BK}

\* the four castlings: the right, the side, the king's way, the squares between king
\* and rook, the rook and its corner
Castlings ==
    {[bit |-> 1, side |-> WHITE, king |-> WK, way |-> <<60, 61, 62>>, between |-> {61, 62},
      rook |-> WR, corner |-> 63],
     [bit |-> 2, side |-> WHITE, king |-> WK, way |-> <<60, 59, 58>>, between |-> {57, 58, 59},
      rook |-> WR, corner |-> 56],
     [bit |-> 4, side |-> BLACK, king |-> BK, way |-> <<4, 5, 6>>, between |-> {5, 6},
      rook |-> BR, corner |-> 7],
     [bit |-> 8, side |-> BLACK, king |-> BK, way |-> <<4, 3, 2>>, between |-> {1, 2, 3},
      rook |-> BR, corner |-> 0]}

\* the conditions of the castling c for the side to move in p
CastlingAllowed(p, c) ==
    /\ p.side = c.side
    /\ HasFlag(p.castling, c.bit)
    /\ p.occ_all \cap c.between = {}
    /\ \A k \in 1..3 : ~AttackedOnBoard(p, c.way[k], OtherSide(c.side))

\* the moves of the list ml that are the castling c
CastlingIn(ml, c) ==
    SelectSeq(ml, LAMBDA m : /\ HasFlag(m.flags, MF_CASTLE)
                             /\ m.from = c.way[1]
                             /\ m.to = c.way[3])

\* C25: a CASTLE move is generated only if its right is set, the squares between
\* king and rook are empty and the king's origin, transit and destination squares are
\* un-attacked by the opponent, and it is generated, once, whenever all of that holds;
\* no CASTLE move but these four is generated.
C25_CastlingGenerated ==
    (fenOk /\ HasKings(pos)) =>
        LET pl == ffp_generate_pseudo_legal(pos)
            ml == ffp_generate_legal(pos)
        IN  /\ \A c \in Castlings :
                   IF CastlingAllowed(pos, c)
                   THEN /\ Len(CastlingIn(pl, c)) = 1
                        /\ CastlingIn(pl, c)[1].piece = c.king
                        /\ CastlingIn(pl, c)[1].flags = MF_CASTLE
                        /\ CastlingIn(ml, c) = CastlingIn(pl, c)
                   ELSE CastlingIn(pl, c) = <<>> /\ CastlingIn(ml, c) = <<>>
            /\ \A i \in 1..Len(pl) :
                   HasFlag(pl[i].flags, MF_CASTLE) =>
                       \E c \in Castlings : pl[i].from = c.way[1] /\ pl[i].to = c.way[3]

\* C25's case: a move has been made, and the side to move has a castling that is
\* generated and another whose right is set and whose squares between are empty but
\* whose way is attacked
C25_Witness ==
    /\ fenOk
    /\ HasKings(pos)
    /\ lastOp = "make"
    /\ \E c \in Castlings : CastlingIn(ffp_generate_legal(pos), c) # <<>>
    /\ \E c \in Castlings :
           /\ pos.side = c.side
           /\ HasFlag(pos.castling, c.bit)
           /\ pos.occ_all \cap c.between = {}
           /\ ~AttackedOnBoard(pos, c.way[1], OtherSide(c.side))
           /\ AttackedOnBoard(pos, c.way[2], OtherSide(c.side))

\* ffp_make_move of the CASTLE move m on the Position b moves the king two squares
\* and has the rook on the square the king crossed and not on its corner, and
\* ffp_unmake_move has king and rook on their origin squares again
CastlingDone(b, m) ==
    LET c == CHOOSE x \in Castlings : x.way[1] = m.from /\ x.way[3] = m.to
        after == ffp_make_move(b, m)
        back == ffp_unmake_move(after, m, UndoOf(b, m))
    IN  /\ Abs(m.to - m.from) = 2
        /\ m.from \in b.bb[c.king]
        /\ after.bb[c.king] = (b.bb[c.king] \ {m.from}) \cup {m.to}
        /\ after.bb[c.rook] = (b.bb[c.rook] \ {c.corner}) \cup {c.way[2]}
        /\ c.corner \notin after.bb[c.rook]
        /\ back.bb[c.king] = b.bb[c.king]
        /\ back.bb[c.rook] = (after.bb[c.rook] \ {c.way[2]}) \cup {c.corner}
        /\ c.corner \in b.bb[c.rook] => back.bb[c.rook] = b.bb[c.rook]

C27_EnPassantOnePly ==
    /\ lastOp = "make" =>
           LET m == undoStack[Len(undoStack)].m
               b == undoStack[Len(undoStack)].before
           IN  /\ pos.ep_square = (IF HasFlag(m.flags, MF_DOUBLE)
                                   THEN IF b.side = WHITE THEN m.to + 8 ELSE m.to - 8
                                   ELSE -1)
               /\ (Len(undoStack) >= 2 /\ b.ep_square # -1) => pos.ep_square # b.ep_square
    /\ (fenOk /\ HasKings(pos)) =>
           LET ml == ffp_generate_legal(pos)
           IN  \A i \in 1..Len(ml) :
                   HasFlag(ml[i].flags, MF_ENPASSANT) =>
                       /\ pos.ep_square # -1
                       /\ ml[i].to = pos.ep_square
                       /\ lastOp = "make" => HasFlag(undoStack[Len(undoStack)].m.flags, MF_DOUBLE)

\* C27's case: a double push was made, which set the target, and then a move other
\* than the en-passant capture it offered, after which the target is none
C27_Witness ==
    /\ lastOp = "make"
    /\ Len(undoStack) = 2
    /\ HasFlag(undoStack[1].m.flags, MF_DOUBLE)
    /\ undoStack[2].before.ep_square = undoStack[1].m.to - 8
    /\ \E i \in 1..Len(ffp_generate_legal(undoStack[2].before)) :
           HasFlag(ffp_generate_legal(undoStack[2].before)[i].flags, MF_ENPASSANT)
    /\ ~HasFlag(undoStack[2].m.flags, MF_ENPASSANT)
    /\ pos.ep_square = -1

\* ---- the FEN loader and emitter (SpecFen) ----

\* C7: for a FEN text that ffp_position_from_fen accepts, ffp_position_to_fen of the
\* loaded Position writes the same text when it has the two counters, and the text
\* followed by " 0 1" when it omits them.
C7_FenRoundTrip ==
    (lastOp = "to_fen" /\ fenOk) =>
        /\ NumSpaces(fenIn) = 5 => fenOut = fenIn
        /\ NumSpaces(fenIn) = 3 => fenOut = fenIn \o Chars(" 0 1")

\* C9: when ffp_position_from_fen returns false, the Position is in the cleared state
\* of ffp_position_clear, with nothing of the partly parsed text left in it.
C9_FailedLoadLeavesCleared ==
    (lastOp = "from_fen" /\ ~fenOk) => pos = ffp_position_clear

\* C10: ffp_position_from_fen returns false for every FEN text with an en-passant
\* square on a rank other than 3 or 6, a rank that does not sum to 8, a placement
\* without exactly 8 ranks, an unknown piece character, a castling character outside
\* KQkq, or a missing side, castling or en-passant field.
C10_DefectiveFenRejected ==
    (lastOp = "from_fen" /\ FenDefect(fenIn)) => ~fenOk

\* ---- the search (SpecSearch) ----

\* C2: ffp_search returns with the Position identical to its value at entry, on
\* every return path.
C2_SearchRestoresPosition == phase = "done" => pos = hist.entry

\* C4: when the abort fires during iteration d, the SearchResult has aborted = true
\* and depth_reached = d - 1, and for d > 1 its best_move and score are those the
\* completed iteration d - 1 chose: nothing of the interrupted iteration is in them.
C4_AbortKeepsCompletedIteration ==
    (phase = "done" /\ hist.firedAt >= 1) =>
        /\ result.aborted
        /\ result.depth_reached = hist.firedAt - 1
        /\ Len(hist.iters) = hist.firedAt - 1
        /\ hist.firedAt > 1 =>
              /\ result.best_move = hist.iters[hist.firedAt - 1].best_move
              /\ result.score = hist.iters[hist.firedAt - 1].score

\* C4's case: the abort fired in a later iteration that had already scored a root
\* move, with a score other than the one returned
C4_Witness ==
    /\ phase = "done"
    /\ hist.firedAt >= 2
    /\ root.found
    /\ root.best_score # result.score

\* C5: when the root has a legal move, the best_move that ffp_search returns is one
\* of ffp_generate_legal(root), aborted or not; when no iteration completed it is the
\* first root move, with depth_reached = 0 and aborted = true.
C5_BestMoveIsRootMove ==
    LET rootMoves == ffp_generate_legal(hist.entry)
    IN  (phase = "done" /\ HasKings(hist.entry) /\ Len(rootMoves) > 0) =>
            /\ \E i \in 1..Len(rootMoves) : rootMoves[i] = result.best_move
            /\ hist.iters = <<>> =>
                  /\ result.best_move = rootMoves[1]
                  /\ result.depth_reached = 0
                  /\ result.aborted

\* C5's case: the search of a root with legal moves returned with no iteration completed
C5_Witness ==
    /\ phase = "done"
    /\ Len(ffp_generate_legal(hist.entry)) > 1
    /\ hist.iters = <<>>

\* C6: the score of a search that was not aborted is the plain negamax value of the
\* root over the legal-move tree cut at the depth reached, and best_move is a root
\* move attaining it.
C6_ScoreIsNegamax ==
    (phase = "done" /\ ~result.aborted /\ root.moves # <<>>) =>
        /\ result.depth_reached = ctx.limits.max_depth
        /\ result.score = Negamax(hist.entry, result.depth_reached)
        /\ result.score = -Negamax(ffp_make_move(hist.entry, result.best_move),
                                   result.depth_reached - 1)

\* the side to move in p has a king that stands attacked, by the geometry of the board
SideToMoveInCheck(p) ==
    \E k \in p.bb[IF p.side = WHITE THEN WK ELSE BK] :
        AttackedOnBoard(p, k, OtherSide(p.side))

\* C18: when the root position has no legal move, ffp_search returns best_move none
\* (from = to = -1), depth_reached 0, nodes 0, aborted false, and the score -20000 if
\* the side to move is in check and 0 otherwise, whatever the limits and the stop flag.
C18_NoRootMove ==
    (phase = "done" /\ ffp_generate_legal(hist.entry) = <<>>) =>
        /\ result.best_move.from = -1
        /\ result.best_move.to = -1
        /\ result.depth_reached = 0
        /\ result.nodes = 0
        /\ ~result.aborted
        /\ result.score = (IF SideToMoveInCheck(hist.entry) THEN -20000 ELSE 0)

\* C18's case: ffp_search has returned from a root where the side to move is
\* checkmated, called with a stop flag that the caller had set before the call
C18_Witness ==
    /\ phase = "done"
    /\ ffp_generate_legal(hist.entry) = <<>>
    /\ SideToMoveInCheck(hist.entry)
    /\ limits.stop
    /\ stopFlag

\* the search stands at a call of search_should_abort: at the entry of alphabeta, or
\* in the root-move loop before a root move
AtAbortCheck == phase = "call" \/ (phase = "root" /\ root.i <= Len(root.moves))

\* C19: with the stop flag written by the caller at any moment of the search, every
\* entry of alphabeta and every root move is preceded by a fresh reading of the flag;
\* the step that reads it true sets the abort, and once the abort is set it stays
\* set, the node counter does not change any more, no move is made any more (the
\* pending ones are unmade), and ffp_search returns with aborted = true even when the
\* flag was cleared in between.
C19_StopLatches ==
    [][/\ (AtAbortCheck /\ ctx.limits.stop /\ stopFlag
              /\ stopFlag' = stopFlag /\ elapsed_ms' = elapsed_ms)
           => ctx'.aborted
       /\ ctx.aborted =>
              /\ ctx'.aborted
              /\ ctx'.nodes = ctx.nodes
              /\ phase' # "call"
              /\ Len(frames') <= Len(frames)
       /\ (phase' = "done" /\ ctx'.aborted) => result'.aborted]_vars

\* C19's case: ffp_search has returned aborted from a search that had visited nodes
\* and whose only limit beside the depth was the stop flag, which the caller had
\* set and has cleared again before the return
C19_Witness ==
    /\ phase = "done"
    /\ result.aborted
    /\ result.nodes > 0
    /\ limits.stop
    /\ limits.node_limit = 0
    /\ limits.time_ms = 0
    /\ ~stopFlag

\* the alpha and beta the innermost active alphabeta call was given: -30000 and 30000
\* by the root-move loop, -beta and -alpha of the calling alphabeta otherwise
CallWindow ==
    IF Len(frames) = 1
    THEN [alpha |-> -30000, beta |-> 30000]
    ELSE [alpha |-> -frames[Len(frames) - 1].beta, beta |-> -frames[Len(frames) - 1].alpha]

\* the step is the return of the innermost active alphabeta call
AlphabetaReturns ==
    /\ phase \in {"call", "loop", "ret"}
    /\ frames # <<>>
    /\ phase' = "ret"
    /\ Len(frames') = Len(frames) - 1

\* C28: every alphabeta call given alpha < beta that returns without the abort set
\* returns a value v with alpha <= v <= beta, whether it returns at depth 0, at a
\* node without legal moves or from its move loop.
C28_FailHard ==
    [][(AlphabetaReturns /\ ~ctx'.aborted /\ CallWindow.alpha < CallWindow.beta)
           => (CallWindow.alpha <= ret' /\ ret' <= CallWindow.beta)]_vars

\* no search of a root without black pawns gives a depth-0 call a value outside
\* the window it was given
LeafReturnsInWindow ==
    [][(/\ AlphabetaReturns
        /\ phase = "call"
        /\ frames[Len(frames)].depth = 0
        /\ hist.entry.bb[BP] = {}
        /\ ~ctx'.aborted
        /\ CallWindow.alpha < CallWindow.beta)
           => (CallWindow.alpha <= ret' /\ ret' <= CallWindow.beta)]_vars

\* the node counter is within the node limit, and so is the count in the result
NodesWithinLimit ==
    ctx.limits.node_limit > 0 =>
        /\ ctx.nodes <= ctx.limits.node_limit
        /\ result.nodes <= ctx.limits.node_limit
        /\ phase = "done" => result.nodes = ctx.nodes

\* the step is an entry of alphabeta (not a change of the caller's flag or of the
\* clock) at which search_should_abort returns false
EntryPassesAbortCheck ==
    /\ phase = "call"
    /\ stopFlag' = stopFlag
    /\ elapsed_ms' = elapsed_ms
    /\ ~search_should_abort(ctx, stopFlag, elapsed_ms)

\* C29: under a node limit the node counter never exceeds the limit, nor does the
\* count ffp_search returns; the counter starts at 0, goes up by one at every entry
\* of alphabeta at which the abort check passes and changes at no other step; and
\* a search whose abort check finds the limit reached sets the abort and returns
\* with aborted = true.
C29_NodeLimit ==
    /\ []NodesWithinLimit
    /\ [][/\ ctx'.nodes = (IF phase = "idle" THEN 0
                            ELSE IF EntryPassesAbortCheck THEN ctx.nodes + 1
                            ELSE ctx.nodes)
          /\ (AtAbortCheck /\ stopFlag' = stopFlag /\ elapsed_ms' = elapsed_ms
                  /\ ctx.limits.node_limit > 0
                  /\ ctx.nodes >= ctx.limits.node_limit) => ctx'.aborted
          /\ (phase' = "done" /\ ctx'.aborted) => result'.aborted]_vars

\* C29's case: ffp_search has returned aborted from a search whose only limit beside
\* the default depth was the node limit, with as many nodes counted as the limit
\* allows and more than one
C29_Witness ==
    /\ phase = "done"
    /\ result.aborted
    /\ limits.node_limit > 1
    /\ ~limits.stop
    /\ limits.time_ms = 0
    /\ result.nodes = limits.node_limit

\* the number of iterations a search under the SearchLimits lim is to complete
IterationsAsked(lim) == IF lim.max_depth > 0 THEN lim.max_depth ELSE 4

\* ffp_search is running
Searching == phase \in {"root", "call", "loop", "ret"}

\* the running iteration is the one after those completed, and a search returned
\* without abort from a root with legal moves has completed all of them
IterationsComplete ==
    /\ Searching =>
           /\ root.depth \in 1..IterationsAsked(limits)
           /\ ~ctx.aborted => Len(hist.iters) = root.depth - 1
    /\ (phase = "done" /\ ~result.aborted /\ ffp_generate_legal(hist.entry) # <<>>) =>
           /\ Len(hist.iters) = IterationsAsked(limits)
           /\ result.depth_reached = IterationsAsked(limits)
           /\ result.best_move = hist.iters[IterationsAsked(limits)].best_move
           /\ result.score = hist.iters[IterationsAsked(limits)].score

\* C30: ffp_search returns; when it was not aborted and the root has a legal move,
\* it has completed the iterations 1..D in this order, one after the other and none
\* left out, whatever score one of them found, and returns depth_reached = D and
\* aborted = false, where D is max_depth when max_depth > 0 and 4 otherwise.
C30_AllIterations ==
    /\ []IterationsComplete
    /\ [][(Searching /\ Searching') =>
              \/ root'.depth = root.depth /\ hist'.iters = hist.iters
              \/ /\ root'.depth = root.depth + 1
                 /\ Len(hist'.iters) = root.depth
                 /\ SubSeq(hist'.iters, 1, Len(hist.iters)) = hist.iters]_vars
    /\ ((phase = "idle") ~> (phase = "done"))

\* C30's case: a search at the default depth, of a root with a mate in one, has
\* returned without abort: its second iteration found the mate, and the third and
\* the fourth were completed after it
C30_Witness ==
    /\ phase = "done"
    /\ limits.max_depth = 0
    /\ ~result.aborted
    /\ Len(hist.iters) = 4
    /\ hist.iters[2].score > 19000
    /\ result.depth_reached = 4

\* ---- perft (SpecPerft) ----

\* the sum of the numbers of the sequence ns
RECURSIVE SumOf(_)
SumOf(ns) == IF ns = <<>> THEN 0 ELSE Head(ns) + SumOf(Tail(ns))

\* the number of lines of generated legal moves, d moves long, from p
RECURSIVE LegalLines(_, _)
LegalLines(p, d) ==
    IF d = 0 THEN 1
    ELSE LET ml == ffp_generate_legal(p)
         IN  SumOf([i \in 1..Len(ml) |-> LegalLines(ffp_make_move(p, ml[i]), d - 1)])

\* C23: perft(pos, 0) is 1 and perft(pos, d) for d > 0 is the sum of perft(child, d-1)
\* over every generated legal move of pos, the children being reached by making the
\* moves in place and unmaking them, which leaves pos as it was; from the start
\* position it is 20 at depth 1, 400 at depth 2 and 8902 at depth 3.
C23_PerftCounts ==
    phase = "done" =>
        /\ ret = LegalLines(hist.entry, hist.depth)
        /\ pos = hist.entry
        /\ hist.depth = 0 => ret = 1
        /\ (fenIn = FFP_FEN_STARTPOS /\ hist.depth = 1) => ret = 20
        /\ (fenIn = FFP_FEN_STARTPOS /\ hist.depth = 2) => ret = 400
        /\ (fenIn = FFP_FEN_STARTPOS /\ hist.depth = 3) => ret = 8902

\* ---- the go command (SpecGo) ----

\* the go commands read and the bestmove lines written match: one line for each
\* command but the one being handled, each with the move "0000" exactly when the
\* Position the command was given on has no legal move
GoAnswered ==
    /\ Len(io.lines) = (IF phase = "read" THEN io.gos ELSE io.gos - 1)
    /\ \A k \in 1..Len(io.lines) :
           /\ SubSeq(io.lines[k].text, 1, 9) = Chars("bestmove ")
           /\ io.lines[k].text = Chars("bestmove 0000")
                  <=> ffp_generate_legal(io.lines[k].asked) = <<>>

\* C24: every go command the loop reads is answered by exactly one bestmove line
\* before the loop reads again, and the move of the line is "0000" exactly when the
\* Position the command was given on has no legal move.
C24_OneBestmovePerGo == []GoAnswered /\ ((phase = "idle") ~> (phase = "read"))

\* C24's case: two go commands have been read on a Position without legal moves and
\* each has been answered
C24_Witness ==
    /\ phase = "read"
    /\ io.gos = 2
    /\ Len(io.lines) = 2
    /\ io.lines[2].text = Chars("bestmove 0000")

\* ---- coordinate moves and the position command (SpecUci) ----

\* a square in standard coordinates: file letter 'a' + (sq mod 8), rank digit 8 - (sq div 8)
StandardSquare(sq) == <<FileChars[(sq % 8) + 1], DigitChars[(8 - (sq \div 8)) + 1]>>

\* a coordinate text of four characters, or of five with a promotion letter
WellFormedMove(text) ==
    /\ Len(text) \in {4, 5}
    /\ IndexIn(FileChars, text[1]) >= 0
    /\ IndexIn(FileChars, text[3]) >= 0
    /\ IndexIn(DigitChars, text[2]) \in 1..8
    /\ IndexIn(DigitChars, text[4]) \in 1..8
    /\ Len(text) = 5 => text[5] \in {"q", "r", "b", "n"}

\* the move mv of the side to move is the one the well-formed text asks for
AnswersText(mv, text, side) ==
    /\ mv.from = SquareNamed(text[1], text[2])
    /\ mv.to = SquareNamed(text[3], text[4])
    /\ Len(text) = 4 => ~HasFlag(mv.flags, MF_PROMO)
    /\ Len(text) = 5 =>
          /\ HasFlag(mv.flags, MF_PROMO)
          /\ mv.promo = (IF side = WHITE THEN 0 ELSE 6)
                         + (IF text[5] = "q" THEN 4 ELSE IF text[5] = "r" THEN 1
                            ELSE IF text[5] = "b" THEN 3 ELSE 2)

\* C12: the position command "position startpos moves e2e4 e7e5 g1f3 b8c6 f1c4 g8f6
\* e1g1" has all seven moves accepted and leaves a Position with the castling bits 1
\* and 2 cleared, the white king on g1 (square 62) and a white rook on f1 (square 61).
C12_CastleLineAccepted ==
    (lastOp = "position" /\ uci.cmd.start = "startpos" /\ uci.cmd.moves = CastleLine) =>
        /\ uci.accepted = 7
        /\ ~HasFlag(pos.castling, 1)
        /\ ~HasFlag(pos.castling, 2)
        /\ 62 \in pos.bb[WK]
        /\ 61 \in pos.bb[WR]

\* C13: ffp_move_to_string writes the from-square and the to-square of a move in
\* standard coordinates under the a8 = 0 numbering, so that the double push from
\* square 52 to square 36 reads "e2e4"; and ffp_move_from_string of "e2e4" on the
\* start position returns that move.
C13_StandardCoordinates ==
    /\ (lastOp = "move_to_string" /\ rendered.mv.from >= 0) =>
          SubSeq(rendered.str, 1, 4)
            = StandardSquare(rendered.mv.from) \o StandardSquare(rendered.mv.to)
    /\ (lastOp = "move_from_string" /\ pos = ffp_position_set_start
          /\ parsed.text = Chars("e2e4")) =>
          parsed.ok /\ parsed.mv.from = 52 /\ parsed.mv.to = 36

\* C14: ffp_move_from_string returns true exactly when the text is well formed (four
\* characters, or five with a promotion letter in q, r, b, n, files a-h, ranks 1-8)
\* and ffp_generate_legal has a move with the from-square, the to-square and the
\* promotion piece it asks for, and then it returns such a legal move; a promotion
\* asked without its letter and a letter on a non-promoting move are refused.
C14_FromStringResolvesLegal ==
    lastOp = "move_from_string" =>
        LET legal == ffp_generate_legal(pos)
            asked == {i \in 1..Len(legal) : AnswersText(legal[i], parsed.text, pos.side)}
        IN  /\ parsed.ok <=> (WellFormedMove(parsed.text) /\ asked # {})
            /\ parsed.ok => \E i \in asked : parsed.mv = legal[i]

\* the Position the move texts toks leave when they are handled in order from p, a
\* text that is well formed and names a legal move of the Position reached so far
\* being made, and every other text left out
RECURSIVE AppliedInOrder(_, _)
AppliedInOrder(p, toks) ==
    IF toks = <<>> THEN p
    ELSE LET legal == ffp_generate_legal(p)
             asked == {i \in 1..Len(legal) : AnswersText(legal[i], Head(toks), p.side)}
         IN  IF WellFormedMove(Head(toks)) /\ asked # {}
             THEN AppliedInOrder(ffp_make_move(p, legal[CHOOSE i \in asked : TRUE]),
                                 Tail(toks))
             ELSE AppliedInOrder(p, Tail(toks))

\* the same with the texts taken as ffp_move_from_string takes them: the Position
\* reached, and the number of texts made
RECURSIVE AcceptedInOrder(_, _, _)
AcceptedInOrder(p, toks, k) ==
    IF k = 0 THEN [pos |-> p, made |-> 0]
    ELSE LET before == AcceptedInOrder(p, toks, k - 1)
             r == ffp_move_from_string(before.pos, MvBuf(toks[k]))
         IN  IF r.ok
             THEN [pos |-> ffp_make_move(before.pos, r.mv), made |-> before.made + 1]
             ELSE before

\* the position command handled last left out the move texts that
\* ffp_move_from_string refused, made every other one in its turn, each a generated
\* legal move of the Position reached before it, and wrote nothing
RefusedTextsLeftOut ==
    lastOp = "position" =>
        LET toks == uci.cmd.moves
            at(k) == AcceptedInOrder(UciStart(pos, uci.cmd), toks, k)
        IN  /\ pos = at(Len(toks)).pos
            /\ uci.accepted = at(Len(toks)).made
            /\ io.lines = <<>>
            /\ \A k \in 1..Len(toks) :
                   LET r == ffp_move_from_string(at(k - 1).pos, MvBuf(toks[k]))
                       legal == ffp_generate_legal(at(k - 1).pos)
                   IN  IF r.ok
                       THEN \E i \in 1..Len(legal) : legal[i] = r.mv
                       ELSE at(k) = at(k - 1)

\* C32: a position command leaves out the move texts that are refused, without
\* writing anything, and goes on with the texts after them: every text is made by
\* ffp_make_move exactly when it names a legal move of the Position reached by the
\* texts before it.
C32_RefusedMovesSkipped ==
    lastOp = "position" =>
        /\ pos = AppliedInOrder(UciStart(pos, uci.cmd), uci.cmd.moves)
        /\ io.lines = <<>>

\* ---- the command loop (SpecLoop) ----

\* the command word of an input line: its text up to the first blank or line end
CommandWord(line) == SubSeq(line, 1, ScanTo(line, 1, {" ", "\n"}) - 1)

\* the command words uci_loop has a handler for
CommandWords ==
    {"uci", "isready", "ucinewgame", "position", "go", "d", "perft", "quit"}

\* the step reads the line whose command word is w
Reads(w) == input' # input /\ CommandWord(input'[Len(input')]) = Chars(w)

\* the step writes the identification response and nothing else
Identifies ==
    /\ Len(io'.lines) = Len(io.lines) + 3
    /\ SubSeq(io'.lines, 1, Len(io.lines)) = io.lines
    /\ io'.lines[Len(io.lines) + 1].text = Chars("id name ffp")
    /\ io'.lines[Len(io.lines) + 2].text = Chars("id author you")
    /\ io'.lines[Len(io.lines) + 3].text = Chars("uciok")

\* C31: every line uci_loop reads is handled by the handler of its own command
\* word: the line "ucinewgame" leaves the start position and writes nothing, and
\* the identification response is written for the line "uci" and for no other.
C31_OwnHandler ==
    [][/\ \A w \in CommandWords : Reads(w) => lastOp' = w
       /\ Reads("ucinewgame") => (pos' = ffp_position_set_start /\ io' = io)
       /\ Reads("uci") => (Identifies /\ pos' = pos)
       /\ (input' # input /\ ~Reads("uci")) =>
              \A k \in 1..Len(io'.lines) :
                  k > Len(io.lines) => io'.lines[k].text # Chars("uciok")]_vars

====
